---- MODULE Spec2Model ----
(***************************************************************************)
(* A model of arke: the zone master-file tokenizer (arke/tokenizer.py)     *)
(* and the zone parser that consumes its tokens (arke/zone.py), with the   *)
(* part of the RR registry (arke/rr.py) the parser consults.               *)
(*                                                                         *)
(* Conventions.  Text is a sequence of one-character strings.  A Python    *)
(* value that may be None is a sequence of length at most one: None is     *)
(* <<>> and a value v is <<v>>.  A raised exception is recorded by its     *)
(* class name in tstatus / pstatus; a loop that never exits is recorded    *)
(* as "hang".                                                              *)
(***************************************************************************)
EXTENDS Integers, Sequences, FiniteSets, TLC

\* ------------------------------------------------------------------------
\* Bounds of the model
\* ------------------------------------------------------------------------
MaxLen == 5

MaxItems == 4

\* Calls a caller makes on a Zone.
MaxCalls == 4

\* Longest name text given to the first Domain of a run.
MaxName == 3

\* Domain objects constructed in a run.
MaxCons == 3

\* Calls a caller makes on the type and class registry.
MaxLookups == 2

\* The token list only outgrows the input when the tokenizer stops consuming
\* characters; the cap keeps that run finite.
MaxTokens == MaxLen + 2

\* ------------------------------------------------------------------------
\* Characters
\* ------------------------------------------------------------------------
NL == "\n"

TAB == "\t"

SP == " "

QUOTE == "\""

SQUOTE == "'"

BSLASH == "\\"

SEMI == ";"

LPAREN == "("

RPAREN == ")"

\* What f.read(1) returns at end of input.
EOFCH == ""

None == <<>>

Some(v) == <<v>>

DELIMITERS == {SEMI, LPAREN, RPAREN, NL, TAB, SP, QUOTE, SQUOTE}

TokenType == {"EOL", "EOF", "SPACE", "COMMENT", "STRING", "WORD"}

Token(type, value, l, c) == [type |-> type, value |-> value, position |-> <<l, c>>]

\* ------------------------------------------------------------------------
\* Tokenizer helpers (pure functions of the file content and the cursor)
\* ------------------------------------------------------------------------
\* _peek_next: the character under the cursor, '' at end of input.
peek_next(inp, p) == IF p <= Len(inp) THEN inp[p] ELSE EOFCH

\* f.read(1) moves the cursor only when a character is left.
read_pos(inp, p) == IF p <= Len(inp) THEN p + 1 ELSE p

is_whitespace(c) == c \in {SP, TAB}

\* eat_whitespace that takes one character of the run only.
eat_whitespace_one(inp, p) == IF is_whitespace(peek_next(inp, p)) THEN 1 ELSE 0

RECURSIVE eat_whitespace(_, _)
eat_whitespace(inp, p) ==
    IF is_whitespace(peek_next(inp, p))
    THEN 1 + eat_whitespace(inp, p + 1)
    ELSE 0

\* _get_string from the loop on: p is the cursor, value the text captured so
\* far, esc the escaped flag.  At end of input read(1) returns '' for ever
\* and neither exit of the loop can be taken.
RECURSIVE get_string_loop(_, _, _, _)
get_string_loop(inp, p, value, esc) ==
    LET c    == peek_next(inp, p)
        p1   == read_pos(inp, p)
        esc1 == IF c = BSLASH /\ ~esc THEN TRUE
                ELSE IF esc THEN FALSE
                ELSE esc
        eol  == ~(c = BSLASH /\ ~esc) /\ ~esc /\ c = NL
        v1   == IF c = EOFCH THEN value ELSE Append(value, c)
    IN  IF eol
        THEN [kind |-> "raise", err |-> "UnexpectedEOL", value |-> value,
              pos |-> p1, escaped |-> esc1]
        ELSE IF c = QUOTE /\ ~esc1
        THEN [kind |-> "ok", err |-> "", value |-> v1,
              pos |-> p1, escaped |-> esc1]
        ELSE IF c = EOFCH
        THEN [kind |-> "hang", err |-> "", value |-> v1,
              pos |-> p1, escaped |-> FALSE]
        ELSE get_string_loop(inp, p1, v1, esc1)

\* The first character is the opening quote.
get_string(inp, p, esc) ==
    get_string_loop(inp, read_pos(inp, p), <<peek_next(inp, p)>>, esc)

\* _get_comment: stops before ')' inside a group and before a newline; at
\* end of input neither test succeeds and read(1) adds '' for ever.
RECURSIVE get_comment_loop(_, _, _, _)
get_comment_loop(inp, p, value, ml) ==
    LET c == peek_next(inp, p)
    IN  IF c = RPAREN /\ ml # 0
        THEN [kind |-> "ok", value |-> value, pos |-> p]
        ELSE IF c = NL
        THEN [kind |-> "ok", value |-> value, pos |-> p + eat_whitespace(inp, p)]
        ELSE IF c = EOFCH
        THEN [kind |-> "hang", value |-> value, pos |-> p]
        ELSE get_comment_loop(inp, p + 1, Append(value, c), ml)

\* get_comment that scans as outside a group whatever the depth.
get_comment_plain(inp, p, ml) == get_comment_loop(inp, p, <<>>, 0)

get_comment(inp, p, ml) == get_comment_loop(inp, p, <<>>, ml)

\* _get_word: up to, not including, the next delimiter or the end of input.
RECURSIVE get_word_loop(_, _, _)
get_word_loop(inp, p, value) ==
    LET c == peek_next(inp, p)
    IN  IF c \in DELIMITERS THEN [value |-> value, pos |-> p]
        ELSE IF c = EOFCH THEN [value |-> value, pos |-> p]
        ELSE get_word_loop(inp, p + 1, Append(value, c))

get_word(inp, p) == get_word_loop(inp, p, <<>>)

\* ------------------------------------------------------------------------
\* State
\* ------------------------------------------------------------------------
VARIABLES
    input,      \* the file content (f), fixed for a run
    pos,        \* f.tell() + 1: index of the next unread character
    multiline,  \* _Tokenizer.multiline
    escaped,    \* _Tokenizer.escaped
    SOL,        \* _Tokenizer.SOL
    line,       \* local `line` of __iter__
    col,        \* local `col` of __iter__
    tokens,     \* every token yielded so far, in order
    tstatus,    \* "running", "stopped" (generator finished after EOF),
                \* "hang", or the exception that ended the generator
    driver,     \* "list": list(iter(tokenizer)); "parser": _ZoneParser pulls;
                \* "api": a caller uses a Zone's methods directly
    taken,      \* tokens the parser's for loop has finished handling
    state,      \* _ZoneParser.state
    zone,       \* the Zone (the parser's, or the caller's): ordered
                \* owner -> records mapping
    pstatus,    \* "running", "done", or the exception that ended parse();
                \* for "api", the exception the last call raised, if any
    calls,      \* the calls made on the Zone by the "api" caller, in order
    objs,       \* the Domain objects allocated so far; an object's identity
                \* is its index
    DOMAINS,    \* arke.domain.DOMAINS: FQDN text -> registered object
    lock,       \* arke.domain._lock, a threading.RLock: owner and depth
    thr,        \* per thread: where it stands in Domain.__init__, its
                \* arguments and locals, and the objects it was given
    registry    \* arke.rr.CLASSES and arke.rr.TYPES: mnemonic -> class
                \* object

tokvars == <<input, pos, multiline, escaped, SOL, line, col, tokens, tstatus>>

parvars == <<taken, state, zone>>

vars == <<input, pos, multiline, escaped, SOL, line, col, tokens, tstatus,
          driver, taken, state, zone, pstatus, calls,
          objs, DOMAINS, lock, thr, registry>>

domvars == <<objs, DOMAINS, lock, thr>>

zonevars == <<driver, taken, state, zone, pstatus, calls>>

TokErrors == {"UnexpectedEOL", "UnexpectedEOF", "UnbalancedParentheses"}

\* ------------------------------------------------------------------------
\* Tokenizer: one action per branch of the loop in _Tokenizer.__iter__
\* ------------------------------------------------------------------------
\* The parser's for loop asks for the next token when it has handled all
\* that were produced; handling a SPACE token peeks one token further.
Demand ==
    \/ Len(tokens) = taken
    \/ /\ Len(tokens) = taken + 1
       /\ tokens[taken + 1].type = "SPACE"

\* The generator runs one loop iteration when its consumer is waiting.
TokRuns ==
    /\ tstatus = "running"
    /\ Len(tokens) < MaxTokens
    /\ \/ driver = "list"
       \/ driver = "parser" /\ pstatus = "running" /\ Demand

\* An exception leaving the generator also leaves the parser's for loop.
Propagate(err) ==
    /\ tstatus' = err
    /\ pstatus' = IF driver = "parser" THEN err ELSE pstatus

Yield(tok) == tokens' = Append(tokens, tok)

TokSpace ==
    /\ TokRuns
    /\ is_whitespace(peek_next(input, pos)) /\ SOL /\ multiline = 0
    /\ LET n == eat_whitespace(input, pos)
       IN  /\ Yield(Token("SPACE", Some(n), line, col))
           /\ pos' = pos + n
           /\ col' = col + n
    /\ SOL' = FALSE
    /\ UNCHANGED <<input, multiline, escaped, line, tstatus,
                   driver, pstatus>>
    /\ UNCHANGED parvars
    /\ UNCHANGED calls
    /\ UNCHANGED domvars
    /\ UNCHANGED registry

TokWhitespace ==
    /\ TokRuns
    /\ is_whitespace(peek_next(input, pos)) /\ ~(SOL /\ multiline = 0)
    /\ LET n == eat_whitespace(input, pos)
       IN  /\ pos' = pos + n
           /\ col' = col + n
    /\ SOL' = FALSE
    /\ UNCHANGED <<input, multiline, escaped, line, tokens, tstatus, driver, pstatus>>
    /\ UNCHANGED parvars
    /\ UNCHANGED calls
    /\ UNCHANGED domvars
    /\ UNCHANGED registry

TokNewline ==
    /\ TokRuns
    /\ peek_next(input, pos) = NL
    /\ tokens' = IF multiline = 0
                 THEN Append(tokens, Token("EOL", None, line, col))
                 ELSE tokens
    /\ pos' = read_pos(input, pos)
    /\ SOL' = TRUE
    /\ line' = line + 1
    /\ col' = 1
    /\ UNCHANGED <<input, multiline, escaped, tstatus, driver,
                   pstatus>>
    /\ UNCHANGED parvars
    /\ UNCHANGED calls
    /\ UNCHANGED domvars
    /\ UNCHANGED registry

TokString ==
    /\ TokRuns
    /\ peek_next(input, pos) = QUOTE
    /\ LET r == get_string(input, pos, escaped)
       IN  /\ pos' = r.pos
           /\ escaped' = r.escaped
           /\ \/ /\ r.kind = "ok"
                 /\ Yield(Token("STRING", Some(r.value), line, col))
                 /\ col' = col + Len(r.value)
                 /\ SOL' = FALSE
                 /\ UNCHANGED <<tstatus, pstatus>>
              \/ /\ r.kind = "raise"
                 /\ Propagate(r.err)
                 /\ UNCHANGED <<tokens, col, SOL>>
              \/ /\ r.kind = "hang"
                 /\ tstatus' = "hang"
                 /\ UNCHANGED <<tokens, col, SOL, pstatus>>
    /\ UNCHANGED <<input, multiline, line, driver>>
    /\ UNCHANGED parvars
    /\ UNCHANGED calls
    /\ UNCHANGED domvars
    /\ UNCHANGED registry

TokComment ==
    /\ TokRuns
    /\ peek_next(input, pos) = SEMI
    /\ LET r == get_comment(input, pos, multiline)
       IN  /\ pos' = r.pos
           /\ \/ /\ r.kind = "ok"
                 /\ Yield(Token("COMMENT", Some(r.value), line, col))
                 /\ SOL' = FALSE
                 /\ col' = col + Len(r.value)
                 /\ UNCHANGED tstatus
              \/ /\ r.kind = "hang"
                 /\ tstatus' = "hang"
                 /\ UNCHANGED <<tokens, col, SOL>>
    /\ UNCHANGED <<input, multiline, escaped, line, driver,
                   pstatus>>
    /\ UNCHANGED parvars
    /\ UNCHANGED calls
    /\ UNCHANGED domvars
    /\ UNCHANGED registry

TokOpen ==
    /\ TokRuns
    /\ peek_next(input, pos) = LPAREN
    /\ pos' = read_pos(input, pos)
    /\ multiline' = multiline + 1
    /\ SOL' = FALSE
    /\ col' = col + 1
    /\ UNCHANGED <<input, escaped, line, tokens, tstatus, driver,
                   pstatus>>
    /\ UNCHANGED parvars
    /\ UNCHANGED calls
    /\ UNCHANGED domvars
    /\ UNCHANGED registry

\* TokClose with the depth test off by one: a `)` at depth 0 is consumed.
TokCloseOffByOne ==
    /\ TokRuns
    /\ peek_next(input, pos) = RPAREN
    /\ \/ /\ multiline < 0
          /\ Propagate("UnbalancedParentheses")
          /\ UNCHANGED <<pos, multiline, SOL, col>>
       \/ /\ ~(multiline < 0)
          /\ pos' = read_pos(input, pos)
          /\ multiline' = multiline - 1
          /\ SOL' = FALSE
          /\ col' = col + 1
          /\ UNCHANGED <<tstatus, pstatus>>
    /\ UNCHANGED <<input, escaped, line, tokens, driver>>
    /\ UNCHANGED parvars
    /\ UNCHANGED calls
    /\ UNCHANGED domvars
    /\ UNCHANGED registry

TokClose ==
    /\ TokRuns
    /\ peek_next(input, pos) = RPAREN
    /\ \/ /\ multiline <= 0
          /\ Propagate("UnbalancedParentheses")
          /\ UNCHANGED <<pos, multiline, SOL, col>>
       \/ /\ ~(multiline <= 0)
          /\ pos' = read_pos(input, pos)
          /\ multiline' = multiline - 1
          /\ SOL' = FALSE
          /\ col' = col + 1
          /\ UNCHANGED <<tstatus, pstatus>>
    /\ UNCHANGED <<input, escaped, line, tokens, driver>>
    /\ UNCHANGED parvars
    /\ UNCHANGED calls
    /\ UNCHANGED domvars
    /\ UNCHANGED registry

TokEOF ==
    /\ TokRuns
    /\ peek_next(input, pos) = EOFCH
    /\ \/ /\ multiline # 0
          /\ Propagate("UnexpectedEOF")
          /\ UNCHANGED tokens
       \/ /\ multiline = 0
          /\ Yield(Token("EOF", None, line, col))
          /\ tstatus' = "stopped"
          /\ UNCHANGED pstatus
    /\ UNCHANGED <<input, pos, multiline, escaped, SOL, line, col, driver>>
    /\ UNCHANGED parvars
    /\ UNCHANGED calls
    /\ UNCHANGED domvars
    /\ UNCHANGED registry

TokWord ==
    /\ TokRuns
    /\ LET c == peek_next(input, pos)
       IN  /\ ~is_whitespace(c)
           /\ c \notin {NL, QUOTE, SEMI, LPAREN, RPAREN, EOFCH}
    /\ LET r == get_word(input, pos)
       IN  /\ Yield(Token("WORD", Some(r.value), line, col))
           /\ pos' = r.pos
           /\ col' = col + Len(r.value)
    /\ SOL' = FALSE
    /\ UNCHANGED <<input, multiline, escaped, line, tstatus,
                   driver, pstatus>>
    /\ UNCHANGED parvars
    /\ UNCHANGED calls
    /\ UNCHANGED domvars
    /\ UNCHANGED registry

TokStep ==
    \/ TokSpace
    \/ TokWhitespace
    \/ TokNewline
    \/ TokString
    \/ TokComment
    \/ TokOpen
    \/ TokClose
    \/ TokEOF
    \/ TokWord

\* ------------------------------------------------------------------------
\* RR registry (arke/rr.py): the entries the parser can meet in the model
\* ------------------------------------------------------------------------
Digits == {"0", "1", "2", "3", "4", "5", "6", "7", "8", "9"}

\* str.upper() on the letters of the model's alphabet.
UpperChar(c) ==
    CASE c = "a" -> "A"
      [] c = "i" -> "I"
      [] c = "n" -> "N"
      [] c = "m" -> "M"
      [] c = "x" -> "X"
      [] c = "t" -> "T"
      [] c = "y" -> "Y"
      [] c = "p" -> "P"
      [] c = "e" -> "E"
      [] OTHER -> c

upper(w) == [i \in 1..Len(w) |-> UpperChar(w[i])]

\* str.isdigit(): non-empty and every character a digit.
isdigit(w) == Len(w) > 0 /\ \A i \in 1..Len(w) : w[i] \in Digits

DigitVal(c) ==
    CASE c = "0" -> 0 [] c = "1" -> 1 [] c = "2" -> 2 [] c = "3" -> 3
      [] c = "4" -> 4 [] c = "5" -> 5 [] c = "6" -> 6 [] c = "7" -> 7
      [] c = "8" -> 8 [] c = "9" -> 9

\* int(text) of an all-digit word.
RECURSIVE int(_)
int(w) ==
    IF Len(w) = 0 THEN 0
    ELSE 10 * int(SubSeq(w, 1, Len(w) - 1)) + DigitVal(w[Len(w)])

\* TYPES: mnemonic -> numeric value and ordered rdata field names.
TYPES ==
    (<<"A">> :> [value |-> 1, rdata_fields |-> <<"ip">>]) @@
    (<<"N", "S">> :> [value |-> 2, rdata_fields |-> <<"host">>]) @@
    (<<"M", "X">> :> [value |-> 15, rdata_fields |-> <<"preference", "host">>]) @@
    (<<"T", "X", "T">> :> [value |-> 16, rdata_fields |-> <<"txt">>])

\* CLASSES: mnemonic -> numeric value.
CLASSES ==
    (<<"I", "N">> :> [value |-> 1]) @@
    (<<"C", "H">> :> [value |-> 3]) @@
    (<<"H", "S">> :> [value |-> 4])

\* re.search(r'^<prefix>\d+$', w)
MatchesPrefixDigits(prefix, w) ==
    /\ Len(w) > Len(prefix)
    /\ SubSeq(w, 1, Len(prefix)) = prefix
    /\ isdigit(SubSeq(w, Len(prefix) + 1, Len(w)))

Ok(v) == [kind |-> "ok", value |-> v, err |-> ""]

Raise(e) == [kind |-> "raise", value |-> None, err |-> e]

\* is_type on a str argument.
is_type(w) ==
    \/ upper(w) \in DOMAIN TYPES
    \/ MatchesPrefixDigits(<<"T", "Y", "P", "E">>, upper(w))

\* get_type_mnemonic on a str argument: the TYPE### form is matched against
\* the word as written, not its upper-case form.
get_type_mnemonic(w) ==
    IF upper(w) \in DOMAIN TYPES THEN Ok(upper(w))
    ELSE IF MatchesPrefixDigits(<<"T", "Y", "P", "E">>, w) THEN Ok(w)
    ELSE Raise("ValueError")

\* is_class: the loop tests `rrclass.upper() in CLASSES[k]`, membership in a
\* class object, which raises TypeError on the first key; with no key the
\* regular-expression test calls the misspelt str.uppper().
is_class(w) ==
    IF DOMAIN CLASSES # {} THEN Raise("TypeError")
    ELSE Raise("AttributeError")

\* get_class_mnemonic on a str argument.
get_class_mnemonic(w) ==
    IF upper(w) \in DOMAIN CLASSES THEN Ok(upper(w))
    ELSE IF MatchesPrefixDigits(<<"C", "L", "A", "S", "S">>, upper(w)) THEN Ok(w)
    ELSE Raise("ValueError")

\* "{}".format(n) of a natural number.
RECURSIVE IntText(_)
IntText(n) ==
    LET d == CHOOSE c \in Digits : DigitVal(c) = n % 10
    IN  IF n < 10 THEN <<d>> ELSE Append(IntText(n \div 10), d)

\* The long_name attribute of the class statements of rr.py.
long_name(m) ==
    CASE m = <<"I", "N">> -> <<"I", "n", "t", "e", "r", "n", "e", "t">>
      [] m = <<"C", "H">> -> <<"C", "h", "a", "o", "s">>
      [] m = <<"H", "S">> -> <<"H", "e", "s", "i", "o", "d">>

\* The class object a `class` statement of rr.py defines.  id tells class
\* objects apart: 0 for those of the module's class statements, the number
\* of the call for one made by type() during that call.
BuiltinClass(m) ==
    [id |-> 0, mnemonic |-> m, value |-> CLASSES[m].value, long_name |-> long_name(m)]

BuiltinType(m) ==
    [id |-> 0, mnemonic |-> m, value |-> TYPES[m].value,
     rdata_fields |-> TYPES[m].rdata_fields]

\* CLASSES and TYPES once the module is imported.
InitRegistry ==
    [CLASSES |-> [m \in DOMAIN CLASSES |-> BuiltinClass(m)],
     TYPES |-> [m \in DOMAIN TYPES |-> BuiltinType(m)]]

\* Arguments: a class or type object, an int, or a str.
ObjArg(o) == [kind |-> "type", text |-> o.mnemonic, n |-> o.value]

IntArg(n) == [kind |-> "int", text |-> <<>>, n |-> n]

StrArg(w) == [kind |-> "str", text |-> w, n |-> 0]

\* The digits of a text of the form <prefix>digits, as written.
AfterPrefix(prefix, w) == SubSeq(w, Len(prefix) + 1, Len(w))

\* get_class_value: the CLASS### form is matched against the text as
\* written.
get_class_value(r, a) ==
    CASE a.kind = "type" -> Ok(a.n)
      [] a.kind = "int" -> Ok(a.n)
      [] a.kind = "str" ->
            IF upper(a.text) \in DOMAIN r.CLASSES
            THEN Ok(r.CLASSES[upper(a.text)].value)
            ELSE IF MatchesPrefixDigits(<<"C", "L", "A", "S", "S">>, a.text)
            THEN Ok(int(AfterPrefix(<<"C", "L", "A", "S", "S">>, a.text)))
            ELSE Raise("ValueError")

\* get_class_mnemonic on an int: the mnemonic of the registered class with
\* that value, or CLASS followed by the number.
get_class_mnemonic_int(r, n) ==
    LET ks == {k \in DOMAIN r.CLASSES : r.CLASSES[k].value = n}
    IN  IF ks # {} THEN r.CLASSES[CHOOSE k \in ks : TRUE].mnemonic
        ELSE <<"C", "L", "A", "S", "S">> \o IntText(n)

\* _generate_unknown_class(n) during call number id: a new class object
\* whose long name is its mnemonic, stored in CLASSES under the mnemonic,
\* over whatever stood there.
generate_unknown_class(r, n, id) ==
    LET m == get_class_mnemonic_int(r, n)
        newclass == [id |-> id, mnemonic |-> m, value |-> n, long_name |-> m]
    IN  [value |-> newclass,
         reg |-> [r EXCEPT !.CLASSES =
                     [k \in DOMAIN r.CLASSES \cup {m} |->
                         IF k = m THEN newclass ELSE r.CLASSES[k]]]]

\* get_class: a Class object is returned as it is; everything else goes
\* through _generate_unknown_class.
get_class(r, a, id) ==
    IF a.kind = "type"
    THEN [kind |-> "ok", err |-> "", reg |-> r]
    ELSE LET v == get_class_value(r, a)
         IN  IF v.kind = "raise" THEN [kind |-> "raise", err |-> v.err, reg |-> r]
             ELSE [kind |-> "ok", err |-> "",
                   reg |-> generate_unknown_class(r, v.value, id).reg]

\* get_type_value on a str: the TYPE### form is matched against the text as
\* written.
get_type_value(r, w) ==
    IF upper(w) \in DOMAIN r.TYPES THEN Ok(r.TYPES[upper(w)].value)
    ELSE IF MatchesPrefixDigits(<<"T", "Y", "P", "E">>, w)
    THEN Ok(int(AfterPrefix(<<"T", "Y", "P", "E">>, w)))
    ELSE Raise("ValueError")

\* _generate_unknown_type(n) during call number id: a new subclass of RR
\* named TYPE<n>, stored in TYPES.
generate_unknown_type(r, n, id) ==
    LET m == <<"T", "Y", "P", "E">> \o IntText(n)
        newclass == [id |-> id, mnemonic |-> m, value |-> n,
                     rdata_fields |-> <<"rdata">>]
    IN  [value |-> newclass,
         reg |-> [r EXCEPT !.TYPES =
                     [k \in DOMAIN r.TYPES \cup {m} |->
                         IF k = m THEN newclass ELSE r.TYPES[k]]]]

\* RR.__init__ of a type class with keyword arguments of the given names:
\* the class is resolved with get_class before the rdata fields are read.
RR_init(r, type, rrclass, kwargs, id) ==
    LET c == get_class(r, rrclass, id)
    IN  IF c.kind = "raise" THEN c
        ELSE IF \E i \in 1..Len(type.rdata_fields) : type.rdata_fields[i] \notin kwargs
        THEN [kind |-> "raise", err |-> "KeyError", reg |-> c.reg]
        ELSE c

\* generate(rrtype, **kwargs) for a str rrtype.
generate(r, w, rrclass, kwargs, id) ==
    LET m == get_type_mnemonic(w)
    IN  IF m.kind = "raise" THEN [kind |-> "raise", err |-> m.err, reg |-> r]
        ELSE IF m.value \in DOMAIN r.TYPES
        THEN RR_init(r, r.TYPES[m.value], rrclass, kwargs, id)
        ELSE LET g == generate_unknown_type(r, get_type_value(r, m.value).value, id)
             IN  RR_init(g.reg, g.value, rrclass, kwargs, id)

\* ------------------------------------------------------------------------
\* Zone parser (arke/zone.py)
\* ------------------------------------------------------------------------
\* reset_state: back to the beginning of a line; last_oname and want stay.
reset_state(st) ==
    [st EXCEPT !.next_token = None, !.oname = None, !.rrtype = None,
               !.rrclass = None, !.ttl = None, !.rdata = <<>>]

\* Python truth value of a state field: None, '' and [] are false.
Truthy(v) == v # None /\ v # Some(<<>>)

\* last_step: the want list after the given step.
last_step(st, step) ==
    CASE step = "EOL" ->
            [reset_state(st) EXCEPT !.want = {"oname", "comment"}]
      [] step = "EOF" -> st
      [] step = "oname" ->
            [st EXCEPT !.want = {"ttl", "rrclass", "rrtype"}]
      [] step = "ttl" ->
            [st EXCEPT !.want =
                {w \in {"rrclass", "rrtype"} : st[w] = None}]
      [] step = "rrclass" ->
            [st EXCEPT !.want =
                {w \in {"ttl", "rrtype"} : st[w] = None}]
      [] step = "rrtype" -> [st EXCEPT !.want = {"rdata"}]
      [] step = "rdata" -> [st EXCEPT !.want = {"rdata", "EOL", "EOF"}]

\* The parser state after __init__: reset_state({'last_oname': None}) then
\* last_step(EOL).
InitState ==
    [last_oname |-> None, next_token |-> None, oname |-> None,
     rrtype |-> None, rrclass |-> None, ttl |-> None, rdata |-> <<>>,
     want |-> {"oname", "comment"}]

\* compile_state.  The required-data check builds its MissingData message
\* with a one-argument map(), which raises TypeError before MissingData can
\* be raised.  Past the check, the owner is built through arke.domain, a
\* module zone.py never imports, and the type is resolved through
\* arke.rr.get_type, which rr.py does not define: whichever is reached
\* first raises AttributeError, so no RR is ever returned.
compile_state(st) ==
    IF \/ ~Truthy(st.oname)
       \/ ~Truthy(st.rrtype)
       \/ st.rdata = <<>>
    THEN Raise("TypeError")
    ELSE Raise("AttributeError")

\* add_rr with a new owner's bucket put first instead of last.
add_rr_front(z, rr) ==
    IF \E i \in 1..Len(z) : z[i].oname = rr.oname
    THEN [i \in 1..Len(z) |->
             IF z[i].oname = rr.oname
             THEN [z[i] EXCEPT !.rrs = Append(@, rr)]
             ELSE z[i]]
    ELSE <<[oname |-> rr.oname, rrs |-> <<rr>>]>> \o z

\* Zone.add_rr: append to the owner's bucket, creating it at the end.
add_rr(z, rr) ==
    IF \E i \in 1..Len(z) : z[i].oname = rr.oname
    THEN [i \in 1..Len(z) |->
             IF z[i].oname = rr.oname
             THEN [z[i] EXCEPT !.rrs = Append(@, rr)]
             ELSE z[i]]
    ELSE Append(z, [oname |-> rr.oname, rrs |-> <<rr>>])

\* The instance attributes Zone.__init__ sets; the mapping itself is the
\* OrderedDict the Zone is.
ZoneAttrs == {"name", "default_ttl"}

\* Zone.del_rr with keyword arguments match (a sequence of <<key, value>>
\* pairs).  Its loops run over self.rrs, an attribute no code sets, so the
\* first statement raises AttributeError.  Were the attribute there, the
\* test `k not in rr` on the first record would raise TypeError (an RR is
\* no container), and with no keyword every record and then every owner
\* would be deleted.
del_rr(z, match) ==
    IF "rrs" \notin ZoneAttrs THEN Raise("AttributeError")
    ELSE IF match # <<>> /\ z # <<>> THEN Raise("TypeError")
    ELSE Ok(<<>>)

\* `self.tok.peek() is TokenType.WORD`: peek() returns the Token tuple, and
\* an object of class Token is never the enum member itself.
peek_is(tok, ttype) ==
    LET cls_of_peek == "Token"
        cls_of_type == "TokenType"
    IN  cls_of_peek = cls_of_type /\ tok.type = ttype

\* The token the for loop handles next, once the generator has yielded it.
HasTok == driver = "parser" /\ pstatus = "running" /\ Len(tokens) > taken

Tok == tokens[taken + 1]

ParseComment ==
    /\ HasTok
    /\ Tok.type = "COMMENT"
    /\ taken' = taken + 1
    /\ UNCHANGED <<state, zone, pstatus, driver>>
    /\ UNCHANGED tokvars
    /\ UNCHANGED calls
    /\ UNCHANGED domvars
    /\ UNCHANGED registry

\* ParseEOL with the end of an incomplete line tolerated: the line is
\* dropped and the parse goes on.
ParseEOLLenient ==
    /\ HasTok
    /\ Tok.type \in {"EOL", "EOF"}
    /\ taken' = taken + 1
    /\ IF "EOL" \in state.want
       THEN LET r == compile_state(state)
            IN  IF r.kind = "raise"
                THEN /\ pstatus' = r.err
                     /\ UNCHANGED <<state, zone>>
                ELSE /\ state' = last_step(reset_state(state), "EOL")
                     /\ zone' = add_rr(zone, r.value)
                     /\ pstatus' = IF Tok.type = "EOF" THEN "done" ELSE pstatus
       ELSE /\ state' = last_step(reset_state(state), "EOL")
            /\ pstatus' = IF Tok.type = "EOF" THEN "done" ELSE pstatus
            /\ UNCHANGED zone
    /\ UNCHANGED driver
    /\ UNCHANGED tokvars
    /\ UNCHANGED calls
    /\ UNCHANGED domvars
    /\ UNCHANGED registry

\* EOL and EOF share one branch.  After the EOF token the generator is
\* finished, so the for loop ends and parse() returns.
ParseEOL ==
    /\ HasTok
    /\ Tok.type \in {"EOL", "EOF"}
    /\ taken' = taken + 1
    /\ IF "EOL" \in state.want
       THEN LET r == compile_state(state)
            IN  IF r.kind = "raise"
                THEN /\ pstatus' = r.err
                     /\ UNCHANGED <<state, zone>>
                ELSE /\ state' = last_step(reset_state(state), "EOL")
                     /\ zone' = add_rr(zone, r.value)
                     /\ pstatus' = IF Tok.type = "EOF" THEN "done" ELSE pstatus
       ELSE /\ pstatus' = IF Tok.type = "EOL" THEN "UnexpectedEOL"
                          ELSE "UnexpectedEOF"
            /\ UNCHANGED <<state, zone>>
    /\ UNCHANGED driver
    /\ UNCHANGED tokvars
    /\ UNCHANGED calls
    /\ UNCHANGED domvars
    /\ UNCHANGED registry

\* SPACE: needs the token after it for the peek.
ParseSpace ==
    /\ HasTok
    /\ Tok.type = "SPACE"
    /\ Len(tokens) > taken + 1
    /\ taken' = taken + 1
    /\ state' = IF peek_is(tokens[taken + 2], "WORD") /\ "oname" \in state.want
                THEN last_step([state EXCEPT !.oname = state.last_oname], "oname")
                ELSE state
    /\ UNCHANGED <<zone, pstatus, driver>>
    /\ UNCHANGED tokvars
    /\ UNCHANGED calls
    /\ UNCHANGED domvars
    /\ UNCHANGED registry

ParseString ==
    /\ HasTok
    /\ Tok.type = "STRING"
    /\ taken' = taken + 1
    /\ IF "rdata" \in state.want
       THEN /\ state' = [state EXCEPT !.rdata = Append(@, Tok.value[1])]
            /\ UNCHANGED pstatus
       ELSE /\ pstatus' = "UnexpectedToken"
            /\ UNCHANGED state
    /\ UNCHANGED <<zone, driver>>
    /\ UNCHANGED tokvars
    /\ UNCHANGED calls
    /\ UNCHANGED domvars
    /\ UNCHANGED registry

\* word_step that tries the type registry before the rdata test, so a
\* word spelling a type is read as the type again.
word_step_type_first(st, w) ==
    IF "oname" \in st.want
    THEN [st |-> last_step([st EXCEPT !.oname = Some(w)], "oname"), err |-> ""]
    ELSE IF is_type(w) /\ get_type_mnemonic(w).kind = "ok"
    THEN [st |-> last_step([st EXCEPT !.rrtype = Some(get_type_mnemonic(w).value)],
                           "rrtype"),
          err |-> ""]
    ELSE IF "rdata" \in st.want
    THEN [st |-> last_step([st EXCEPT !.rdata = Append(@, w)], "rdata"), err |-> ""]
    ELSE [st |-> st, err |-> "UnexpectedToken"]

\* The state and status after a WORD token, by first match.
word_step(st, w) ==
    IF "oname" \in st.want
    THEN [st |-> last_step([st EXCEPT !.oname = Some(w)], "oname"), err |-> ""]
    ELSE IF "rdata" \in st.want
    THEN [st |-> last_step([st EXCEPT !.rdata = Append(@, w)], "rdata"), err |-> ""]
    ELSE IF isdigit(w) /\ "ttl" \in st.want
    THEN [st |-> last_step([st EXCEPT !.ttl = Some(int(w))], "ttl"), err |-> ""]
    ELSE IF is_type(w)
    THEN LET m == get_type_mnemonic(w)
         IN  IF m.kind = "raise" THEN [st |-> st, err |-> m.err]
             ELSE [st |-> last_step([st EXCEPT !.rrtype = Some(m.value)], "rrtype"),
                   err |-> ""]
    ELSE LET c == is_class(w)
         IN  IF c.kind = "raise" THEN [st |-> st, err |-> c.err]
             ELSE IF c.value
             THEN LET m == get_class_mnemonic(w)
                  IN  IF m.kind = "raise" THEN [st |-> st, err |-> m.err]
                      ELSE [st |-> last_step([st EXCEPT !.rrclass = Some(m.value)],
                                             "rrclass"),
                            err |-> ""]
             ELSE [st |-> st, err |-> "UnexpectedToken"]

ParseWord ==
    /\ HasTok
    /\ Tok.type = "WORD"
    /\ taken' = taken + 1
    /\ LET r == word_step(state, Tok.value[1])
       IN  /\ state' = r.st
           /\ pstatus' = IF r.err = "" THEN pstatus ELSE r.err
    /\ UNCHANGED <<zone, driver>>
    /\ UNCHANGED tokvars
    /\ UNCHANGED calls
    /\ UNCHANGED domvars
    /\ UNCHANGED registry

ParseStep ==
    \/ ParseComment
    \/ ParseEOL
    \/ ParseSpace
    \/ ParseString
    \/ ParseWord

\* What parse() returns when its for loop ends: the method has no return
\* statement.
parse_result == None

\* Zone.from_file: builds the parser, whose __init__ runs parse(), then
\* returns the result of a second parse(), which finds the token stream
\* used up.  The value is an optional zone.
from_file == parse_result

\* ------------------------------------------------------------------------
\* Domain names (arke/domain.py) and the zone name (arke/zone.py)
\* ------------------------------------------------------------------------
\* str.endswith('.')
endswith_dot(text) == Len(text) > 0 /\ text[Len(text)] = "."

\* _label_split from character i on: labels closed so far and the label
\* being built.  A backslash that is the last character makes peek() raise
\* StopIteration.
RECURSIVE label_split_loop(_, _, _, _)
label_split_loop(text, i, labels, current) ==
    IF i > Len(text) THEN Ok(Append(labels, current))
    ELSE IF text[i] = BSLASH
    THEN IF i = Len(text) THEN Raise("StopIteration")
         ELSE IF text[i + 1] = "."
         THEN label_split_loop(text, i + 2, labels, Append(current, "."))
         ELSE label_split_loop(text, i + 2, labels,
                               current \o <<BSLASH, text[i + 1]>>)
    ELSE IF text[i] = "."
    THEN label_split_loop(text, i + 1, Append(labels, current), <<>>)
    ELSE label_split_loop(text, i + 1, labels, Append(current, text[i]))

label_split(text) == label_split_loop(text, 1, <<>>, <<>>)

\* escape_label that leaves the periods of a label as they are.
escape_label_plain(l) == l

\* x.replace('.', '\.') on one label.
RECURSIVE escape_label(_)
escape_label(l) ==
    IF l = <<>> THEN <<>>
    ELSE (IF Head(l) = "." THEN <<BSLASH, ".">> ELSE <<Head(l)>>)
         \o escape_label(Tail(l))

\* _label_unsplit: ".".join of the escaped labels.
RECURSIVE label_unsplit(_)
label_unsplit(labels) ==
    IF labels = <<>> THEN <<>>
    ELSE IF Len(labels) = 1 THEN escape_label(labels[1])
    ELSE escape_label(labels[1]) \o <<".">> \o label_unsplit(Tail(labels))

\* fqdn that stops at the domain's own text.
fqdn_own(d) == label_unsplit(d.name)

\* Domain.fqdn: own text, then the origins' text, joined by '.'.
RECURSIVE fqdn(_)
fqdn(d) ==
    IF d.origin = None THEN label_unsplit(d.name)
    ELSE label_unsplit(d.name) \o <<".">> \o fqdn(d.origin[1])

\* Domain.__eq__: `self.name == other.name and self.origin == other.origin`.
\* Comparing an origin with None reaches Domain.__eq__ with None as the
\* other side (directly or reflected), which reads None.name.
RECURSIVE eq(_, _)
eq(a, b) ==
    IF a.name # b.name THEN Ok(FALSE)
    ELSE IF a.origin = None /\ b.origin = None THEN Ok(TRUE)
    ELSE IF a.origin = None \/ b.origin = None THEN Raise("AttributeError")
    ELSE eq(a.origin[1], b.origin[1])

\* Domain.__lt__: `self.origin < other.origin or reversed(self.name) <
\* reversed(other.name)`.  None < None is a TypeError; None against a Domain
\* reaches a Domain comparison with None as the other side, which reads
\* None.origin; two reversed() iterators are not orderable.
RECURSIVE lt(_, _)
lt(a, b) ==
    LET o == IF a.origin = None /\ b.origin = None THEN Raise("TypeError")
             ELSE IF a.origin = None \/ b.origin = None
             THEN Raise("AttributeError")
             ELSE lt(a.origin[1], b.origin[1])
    IN  IF o.kind = "raise" THEN o
        ELSE IF o.value THEN Ok(TRUE)
        ELSE Raise("TypeError")

\* Domain.__gt__: as __lt__ with the comparisons turned round.
RECURSIVE gt(_, _)
gt(a, b) ==
    LET o == IF a.origin = None /\ b.origin = None THEN Raise("TypeError")
             ELSE IF a.origin = None \/ b.origin = None
             THEN Raise("AttributeError")
             ELSE gt(a.origin[1], b.origin[1])
    IN  IF o.kind = "raise" THEN o
        ELSE IF o.value THEN Ok(TRUE)
        ELSE Raise("TypeError")

\* Domain.__le__: `self < other or self == other`.
le(a, b) ==
    LET l == lt(a, b)
    IN  IF l.kind = "raise" THEN l
        ELSE IF l.value THEN Ok(TRUE)
        ELSE eq(a, b)

\* Zone.__init__: the zone name always ends with '.'.
zone_name(name) == IF endswith_dot(name) THEN name ELSE Append(name, ".")

\* Domain.__init__: the origin is kept only for a name without a final '.';
\* a name with neither gets the '.'; the labels are stored split.
Domain(text, origin) ==
    LET org == IF ~endswith_dot(text) /\ origin # None THEN origin ELSE None
        nm  == IF org = None /\ ~endswith_dot(text) THEN Append(text, ".")
               ELSE text
    IN  [name |-> label_split(nm).value, origin |-> org]

\* The text Domain.__init__ hands to _label_split.
split_text(text, origin) ==
    IF (~endswith_dot(text) /\ origin # None) \/ endswith_dot(text) THEN text
    ELSE Append(text, ".")

\* RR.__init__ for a class given as a Class object: the attributes of the
\* record, the rdata values in the order of the type's fields.
RR(oname, rrclass, ttl, rrtype, rdata) ==
    [oname |-> oname, rrclass |-> Some(rrclass), ttl |-> ttl,
     rrtype |-> rrtype, rdata |-> rdata]

\* The name given to _ZoneParser in the model's runs ('example.com' in the
\* tests).
ZoneArg == <<"z">>

\* The cls argument of _ZoneParser: arke.rr.IN unless given.
cls == <<"I", "N">>

\* Zone.default_ttl of the parser's zone: Zone(name) is built without one.
default_ttl == None

\* ------------------------------------------------------------------------
\* Inputs and specifications
\* ------------------------------------------------------------------------
\* Characters of the tokenizer runs.
TokChars == {SP, NL, QUOTE, SEMI, LPAREN, RPAREN, SQUOTE, BSLASH, "a"}

TokInputs == UNION {[1..n -> TokChars] : n \in 0..MaxLen}

\* Lexical items of the parser runs; a word carries its separating space.
Items ==
    { <<"@", SP>>, <<"1", SP>>, <<"A", SP>>, <<"M", "X", SP>>,
      <<"I", "N", SP>>, <<QUOTE, "s", QUOTE, SP>>, <<SEMI, "c">>,
      <<SP>>, <<NL>>, <<LPAREN>>, <<RPAREN>> }

RECURSIVE Flatten(_)
Flatten(ss) ==
    IF ss = <<>> THEN <<>> ELSE Head(ss) \o Flatten(Tail(ss))

\* Complete zone texts in the shape of the tests' sample: records with and
\* without ttl and class, a record wrapped in a group over two lines, a
\* line that inherits its owner, blank and comment lines.
Text(items) == Flatten(items)

SampleInputs ==
    { Text(<< <<"@", SP>>, <<"I", "N", SP>>, <<"A", SP>>, <<"1">>, <<NL>>,
              <<SP>>, <<"I", "N", SP>>, <<"A", SP>>, <<"1">>, <<NL>> >>),
      Text(<< <<"@", SP>>, <<"A", SP>>, <<LPAREN>>, <<NL>>, <<SP>>, <<"1", SP>>,
              <<SEMI, "c">>, <<RPAREN>>, <<NL>> >>),
      Text(<< <<"@", SP>>, <<"M", "X", SP>>, <<LPAREN>>, <<"1", SP>>,
              <<"@", SP>>, <<RPAREN>> >>),
      Text(<< <<"@", SP>>, <<"1", SP>>, <<"I", "N", SP>>, <<"A", SP>>, <<"1">>,
              <<NL>> >>),
      Text(<< <<"@", SP>>, <<"I", "N", SP>>, <<"1", SP>>, <<"A", SP>>, <<"1">>,
              <<NL>> >>),
      Text(<< <<"@", SP>>, <<"1", SP>>, <<"A", SP>>, <<"1", SP>>, <<"1">>,
              <<NL>>, <<NL>>, <<SEMI, "c">>, <<NL>> >>),
      Text(<< <<"@", SP>>, <<"T", "X", "T", SP>>, <<QUOTE, "s", QUOTE>>,
              <<NL>> >>),
      Text(<< <<"a", ".", SP>>, <<"A", SP>>, <<"1">>, <<NL>>,
              <<"a", SP>>, <<"M", "X", SP>> >>) }

ParserInputs ==
    {Flatten(ss) : ss \in UNION {[1..n -> Items] : n \in 0..MaxItems}}
        \cup SampleInputs

InitCommon ==
    /\ pos = 1
    /\ multiline = 0
    /\ escaped = FALSE
    /\ SOL = TRUE
    /\ line = 1
    /\ col = 1
    /\ tokens = <<>>
    /\ tstatus = "running"
    /\ taken = 0
    /\ state = InitState
    /\ zone = <<>>
    /\ pstatus = "running"
    /\ calls = <<>>
    /\ objs = <<>>
    /\ DOMAINS = <<>>
    /\ lock = [owner |-> None, count |-> 0]
    /\ registry = InitRegistry

\* list(iter(_Tokenizer(f))): the tokenizer on its own.
InitTok ==
    /\ input \in TokInputs
    /\ driver = "list"
    /\ InitCommon
    /\ thr = <<>>

\* _ZoneParser(_Tokenizer(f), name): the parser pulling from the tokenizer.
Init ==
    /\ input \in ParserInputs
    /\ driver = "parser"
    /\ InitCommon
    /\ thr = <<>>

NextTok == TokStep

Next == TokStep \/ ParseStep

SpecTok == InitTok /\ [][NextTok]_vars

Spec == Init /\ [][Next]_vars

\* ------------------------------------------------------------------------
\* A Zone used directly: add_rr and del_rr called by a caller
\* ------------------------------------------------------------------------
\* Owners of the caller's records: two fully qualified names, a name
\* relative to the zone, and the same name written fully qualified.
ApiOwners ==
    { Domain(<<"a", ".">>, None),
      Domain(<<"b", ".">>, None),
      Domain(<<"a">>, Some(Domain(zone_name(ZoneArg), None))),
      Domain(<<"a", ".">> \o zone_name(ZoneArg), None) }

\* The caller's records: an A and an NS record for each owner.
ApiRecords ==
    { RR(o, cls, Some(1), <<"A">>, << <<"1">> >>) : o \in ApiOwners }
        \cup { RR(o, cls, Some(1), <<"N", "S">>, << <<"n">> >>) : o \in ApiOwners }

\* Keyword arguments given to del_rr, as <<key, value>> pairs.
ApiMatches ==
    { <<>>,
      << <<"type", <<"A">> >> >>,
      << <<"type", <<"N", "S">> >> >>,
      << <<"ip", <<"1">> >> >>,
      << <<"type", <<"A">> >>, <<"ip", <<"1">> >> >> }

ApiRuns == driver = "api" /\ Len(calls) < MaxCalls

Call(op, rr, match) == [op |-> op, rr |-> rr, match |-> match]

\* zone.add_rr(rr)
ZoneAddRR ==
    /\ ApiRuns
    /\ \E rr \in ApiRecords :
          /\ zone' = add_rr(zone, rr)
          /\ calls' = Append(calls, Call("add_rr", Some(rr), <<>>))
    /\ pstatus' = "running"
    /\ UNCHANGED <<driver, taken, state>>
    /\ UNCHANGED domvars
    /\ UNCHANGED registry
    /\ UNCHANGED tokvars

\* zone.del_rr(**match)
ZoneDelRR ==
    /\ ApiRuns
    /\ \E match \in ApiMatches :
          LET r == del_rr(zone, match)
          IN  /\ zone' = IF r.kind = "ok" THEN r.value ELSE zone
              /\ pstatus' = IF r.kind = "ok" THEN "running" ELSE r.err
              /\ calls' = Append(calls, Call("del_rr", None, match))
    /\ UNCHANGED <<driver, taken, state>>
    /\ UNCHANGED domvars
    /\ UNCHANGED registry
    /\ UNCHANGED tokvars

\* Zone(name): an empty zone, then the caller's calls.
InitZone ==
    /\ input = <<>>
    /\ driver = "api"
    /\ InitCommon
    /\ thr = <<>>

NextZone == ZoneAddRR \/ ZoneDelRR

SpecZone == InitZone /\ [][NextZone]_vars

\* ------------------------------------------------------------------------
\* Domain objects constructed by threads (arke/domain.py)
\* ------------------------------------------------------------------------
\* Name texts of the first construction of a single-threaded run.
NameTexts == UNION {[1..n -> {"a", ".", BSLASH}] : n \in 0..MaxName}

\* Name texts of the later constructions and of the threads' runs.
ChainTexts ==
    { <<"a">>, <<"a", ".">>, <<"b", BSLASH, ".", "c">>, <<"a", BSLASH>>,
      <<"a", BSLASH, ".">> }

Threads == 1..Len(thr)

\* A thread between two constructions.
Idle == [pc |-> "idle", text |-> <<>>, origin |-> None, obj |-> 0, self |-> 0,
         made |-> <<>>, err |-> ""]

DomRuns(t) == driver \in {"domain", "threads"} /\ t \in Threads

\* The objects some caller holds and can pass as origin.
Made == UNION {{thr[t].made[i] : i \in 1..Len(thr[t].made)} : t \in Threads}

\* CanAcquire for a lock that does not exclude: every thread gets it.
CanAcquireAlways(l, t) == TRUE

\* threading.RLock: free, or held by one thread that may take it again.
CanAcquire(l, t) == l.owner = None \/ l.owner = Some(t)

\* _acquireLock / _releaseLock on the RLock.
acquireLock(l, t) == [owner |-> Some(t), count |-> l.count + 1]

releaseLock(l, t) ==
    IF l.count = 1 THEN [owner |-> None, count |-> 0]
    ELSE [l EXCEPT !.count = @ - 1]

\* The registry key of an object: self.fqdn().
key_of(o) == fqdn(objs[o].value)

\* Domain(text, origin) up to the lock: the origin is settled, the name is
\* split.  A backslash at the very end of the split text makes peek() raise
\* StopIteration, which leaves the constructor.
DomainNew ==
    \E t \in Threads :
        /\ DomRuns(t)
        /\ thr[t].pc = "idle"
        /\ Len(objs) < MaxCons
        /\ \E text \in (IF driver = "domain" /\ objs = <<>> THEN NameTexts
                        ELSE ChainTexts),
              origin \in {None} \cup {Some(o) : o \in Made} :
              LET ov == IF origin = None THEN None
                        ELSE Some(objs[origin[1]].value)
                  kept == IF ~endswith_dot(text) THEN origin ELSE None
              IN  IF label_split(split_text(text, ov)).kind = "raise"
                  THEN /\ thr' = [thr EXCEPT ![t].err = "StopIteration",
                                             ![t].text = text,
                                             ![t].origin = origin]
                       /\ UNCHANGED objs
                  ELSE /\ objs' = Append(objs,
                                    [value |-> Domain(text, ov),
                                     origin |-> kept,
                                     given |-> origin,
                                     text |-> text,
                                     split |-> split_text(text, ov)])
                       /\ thr' = [thr EXCEPT ![t].pc = "acquire",
                                             ![t].text = text,
                                             ![t].origin = origin,
                                             ![t].obj = Len(objs) + 1,
                                             ![t].self = Len(objs) + 1,
                                             ![t].err = ""]
        /\ UNCHANGED <<DOMAINS, lock>>
        /\ UNCHANGED zonevars
        /\ UNCHANGED registry
        /\ UNCHANGED tokvars

\* _acquireLock(): waits for the lock.
DomainAcquire ==
    \E t \in Threads :
        /\ DomRuns(t)
        /\ thr[t].pc = "acquire"
        /\ CanAcquire(lock, t)
        /\ lock' = acquireLock(lock, t)
        /\ thr' = [thr EXCEPT ![t].pc = "lookup"]
        /\ UNCHANGED <<objs, DOMAINS>>
        /\ UNCHANGED zonevars
        /\ UNCHANGED registry
        /\ UNCHANGED tokvars

\* if self.fqdn() in DOMAINS
DomainLookup ==
    \E t \in Threads :
        /\ DomRuns(t)
        /\ thr[t].pc = "lookup"
        /\ thr' = [thr EXCEPT ![t].pc =
                      IF key_of(thr[t].self) \in DOMAIN DOMAINS THEN "reuse"
                      ELSE "insert"]
        /\ UNCHANGED <<objs, DOMAINS, lock>>
        /\ UNCHANGED zonevars
        /\ UNCHANGED registry
        /\ UNCHANGED tokvars

\* self = DOMAINS[self.fqdn()]: rebinds the local name self; the object the
\* caller is given is still the one __init__ was called on.
DomainReuse ==
    \E t \in Threads :
        /\ DomRuns(t)
        /\ thr[t].pc = "reuse"
        /\ thr' = [thr EXCEPT ![t].self = DOMAINS[key_of(thr[t].self)],
                              ![t].pc = "release"]
        /\ UNCHANGED <<objs, DOMAINS, lock>>
        /\ UNCHANGED zonevars
        /\ UNCHANGED registry
        /\ UNCHANGED tokvars

\* DOMAINS[self.fqdn()] = self
DomainInsert ==
    \E t \in Threads :
        /\ DomRuns(t)
        /\ thr[t].pc = "insert"
        /\ LET k == key_of(thr[t].self)
           IN  DOMAINS' = [x \in DOMAIN DOMAINS \cup {k} |->
                              IF x = k THEN thr[t].self ELSE DOMAINS[x]]
        /\ thr' = [thr EXCEPT ![t].pc = "release"]
        /\ UNCHANGED <<objs, lock>>
        /\ UNCHANGED zonevars
        /\ UNCHANGED registry
        /\ UNCHANGED tokvars

\* finally: _releaseLock(); then __init__ returns and the caller has the
\* new object.
DomainRelease ==
    \E t \in Threads :
        /\ DomRuns(t)
        /\ thr[t].pc = "release"
        /\ lock' = releaseLock(lock, t)
        /\ thr' = [thr EXCEPT ![t].pc = "idle",
                              ![t].made = Append(@, thr[t].obj)]
        /\ UNCHANGED <<objs, DOMAINS>>
        /\ UNCHANGED zonevars
        /\ UNCHANGED registry
        /\ UNCHANGED tokvars

\* One thread constructing Domains one after the other.
InitDomain ==
    /\ input = <<>>
    /\ driver = "domain"
    /\ InitCommon
    /\ thr = <<Idle>>

\* Two threads constructing Domains concurrently.
InitThreads ==
    /\ input = <<>>
    /\ driver = "threads"
    /\ InitCommon
    /\ thr = <<Idle, Idle>>

NextDomain ==
    \/ DomainNew
    \/ DomainAcquire
    \/ DomainLookup
    \/ DomainReuse
    \/ DomainInsert
    \/ DomainRelease

SpecDomain == InitDomain /\ [][NextDomain]_vars

SpecThreads == InitThreads /\ [][NextDomain]_vars

\* ------------------------------------------------------------------------
\* Registry lookups by a caller (arke/rr.py)
\* ------------------------------------------------------------------------
\* Class identifiers of known classes: the class object, the mnemonic in
\* either case, the numeric value.
ClassArgs ==
    {ObjArg(BuiltinClass(m)) : m \in DOMAIN CLASSES}
        \cup {StrArg(<<"I", "N">>), StrArg(<<"i", "n">>), StrArg(<<"C", "H">>)}
        \cup {IntArg(4)}

\* Type identifiers of known types: the mnemonic in either case and the
\* TYPE### form of type 1.
TypeArgs == {<<"A">>, <<"a">>, <<"M", "X">>, <<"T", "Y", "P", "E", "1">>}

\* The keyword arguments of the callers' records: those of an A record.
Kwargs == {"oname", "rrclass", "ip"}

RegRuns == driver = "registry" /\ Len(calls) < MaxLookups

RegCall(op, type, rrclass) == [op |-> op, type |-> type, rrclass |-> rrclass]

\* What a registry call leaves behind: the registry and the exception, if
\* any.
RegDone(res, call) ==
    /\ registry' = res.reg
    /\ pstatus' = IF res.kind = "raise" THEN res.err ELSE "running"
    /\ calls' = Append(calls, call)
    /\ UNCHANGED <<driver, taken, state, zone>>
    /\ UNCHANGED <<objs, DOMAINS, lock, thr>>
    /\ UNCHANGED tokvars

\* get_class(rrclass)
RegGetClass ==
    /\ RegRuns
    /\ \E a \in ClassArgs :
          RegDone(get_class(registry, a, Len(calls) + 1),
                  RegCall("get_class", <<>>, a))

\* get_class_mnemonic(rrclass) on a str
RegGetClassMnemonic ==
    /\ RegRuns
    /\ \E a \in {c \in ClassArgs : c.kind = "str"} :
          LET m == get_class_mnemonic(a.text)
          IN  RegDone([kind |-> m.kind, err |-> m.err, reg |-> registry],
                      RegCall("get_class_mnemonic", <<>>, a))

\* get_type_mnemonic(rrtype) on a str
RegGetTypeMnemonic ==
    /\ RegRuns
    /\ \E w \in TypeArgs :
          LET m == get_type_mnemonic(w)
          IN  RegDone([kind |-> m.kind, err |-> m.err, reg |-> registry],
                      RegCall("get_type_mnemonic", w, IntArg(0)))

\* generate(rrtype, oname=..., rrclass=..., ip=...)
RegGenerate ==
    /\ RegRuns
    /\ \E w \in TypeArgs, a \in ClassArgs :
          RegDone(generate(registry, w, a, Kwargs, Len(calls) + 1),
                  RegCall("generate", w, a))

\* arke.rr.A(oname, rrclass, ip=...)
RegNewRR ==
    /\ RegRuns
    /\ \E a \in ClassArgs :
          RegDone(RR_init(registry, registry.TYPES[<<"A">>], a, Kwargs,
                          Len(calls) + 1),
                  RegCall("RR", <<"A">>, a))

InitRegistryCalls ==
    /\ input = <<>>
    /\ driver = "registry"
    /\ InitCommon
    /\ thr = <<>>

NextRegistry ==
    \/ RegGetClass
    \/ RegGetClassMnemonic
    \/ RegGetTypeMnemonic
    \/ RegGenerate
    \/ RegNewRR

SpecRegistry == InitRegistryCalls /\ [][NextRegistry]_vars

\* ------------------------------------------------------------------------
\* Properties
\* ------------------------------------------------------------------------
LastTok == tokens[Len(tokens)]

\* C1: iterating the tokenizer terminates after finitely many tokens.  Every
\* loop iteration either consumes input and goes on, or ends the sequence
\* with a tokenizer error or with the EOF token, which is then the last
\* token and the only EOF.
C1_TokenizerTerminates ==
    [][ \/ /\ tstatus' = "running"
           /\ pos' > pos
        \/ /\ tstatus' \in TokErrors
        \/ /\ tstatus' = "stopped"
           /\ tokens'[Len(tokens')].type = "EOF"
           /\ \A i \in 1..Len(tokens) : tokens[i].type # "EOF" ]_vars

\* Whether character i of v comes right after an unescaped backslash.
RECURSIVE IsEscaped(_, _)
IsEscaped(v, i) == i > 1 /\ v[i - 1] = BSLASH /\ ~IsEscaped(v, i - 1)

\* C2: a double quote right after an unescaped backslash does not end the
\* string.  No STRING token ends at an escaped quote, the only unescaped
\* quotes of its value are the first and the last character, and the
\* escaped flag is false once the token is out.
C2_EscapedQuoteContinues ==
    /\ \A i \in 1..Len(tokens) :
          tokens[i].type = "STRING" =>
              LET v == tokens[i].value[1]
              IN  /\ Len(v) >= 2
                  /\ v[1] = QUOTE
                  /\ v[Len(v)] = QUOTE
                  /\ \A j \in 2..Len(v) :
                        (v[j] = QUOTE /\ ~IsEscaped(v, j)) <=> j = Len(v)
    /\ (tokens # <<>> /\ LastTok.type = "STRING") => ~escaped

\* The parser's for loop is about to finish handling a token of one of the
\* given types.
Handles(types) == HasTok /\ Tok.type \in types /\ taken' = taken + 1

\* The parser handles the EOL or EOF that ends a record: EOL is wanted.
HandlesRecordEnd == Handles({"EOL", "EOF"}) /\ "EOL" \in state.want

\* C3: a SPACE token followed by a WORD while an owner name is wanted makes
\* the line inherit its owner: oname becomes last_oname, the want-set
\* becomes {ttl, rrclass, rrtype}, and the WORD that follows does not
\* become the owner name.
C3_SpaceInheritsOwner ==
    [][ /\ ( /\ Handles({"SPACE"})
             /\ Len(tokens) > taken + 1
             /\ tokens[taken + 2].type = "WORD"
             /\ "oname" \in state.want )
           => /\ state'.oname = state.last_oname
              /\ state'.want = {"ttl", "rrclass", "rrtype"}
        /\ ( /\ Handles({"WORD"})
             /\ taken >= 1
             /\ tokens[taken].type = "SPACE" )
           => state'.oname = state.oname ]_vars

\* Number of records stored under the owner whose FQDN is f.
RECURSIVE RecordsUnder(_, _)
RecordsUnder(z, f) ==
    IF z = <<>> THEN 0
    ELSE (IF fqdn(Head(z).oname) = f THEN Len(Head(z).rrs) ELSE 0)
         + RecordsUnder(Tail(z), f)

\* C4: a record whose owner is written `@` is stored under the zone name
\* itself: ending such a record adds one record to the bucket whose owner's
\* FQDN is the zone name.
C4_AtIsZoneName ==
    [][ (HandlesRecordEnd /\ state.oname = Some(<<"@">>))
        => RecordsUnder(zone', zone_name(ZoneArg))
               = RecordsUnder(zone, zone_name(ZoneArg)) + 1 ]_vars

\* The values of the tokens the parser has finished handling.
HandledWords == [i \in 1..taken |-> tokens[i].value[1]]

IsTtlWord(w) == isdigit(w)

IsClassWord(w) ==
    \/ upper(w) \in DOMAIN CLASSES
    \/ MatchesPrefixDigits(<<"C", "L", "A", "S", "S">>, upper(w))

\* The words after the owner are one of: nothing, a ttl, a class, a ttl then
\* a class, a class then a ttl.
TtlClassForm(rest) ==
    \/ rest = <<>>
    \/ Len(rest) = 1 /\ (IsTtlWord(rest[1]) \/ IsClassWord(rest[1]))
    \/ Len(rest) = 2 /\ IsTtlWord(rest[1]) /\ IsClassWord(rest[2])
    \/ Len(rest) = 2 /\ IsClassWord(rest[1]) /\ IsTtlWord(rest[2])

\* C5: ttl and class are optional and come in either order before the type.
\* After an owner followed by any of the five forms the parse is still
\* running (the tokenizer not having failed), ttl and class hold what was written whatever the order, and
\* the type is still wanted.
C5_TtlClassEitherOrder ==
    ( /\ driver = "parser"
      /\ tstatus \notin TokErrors
      /\ taken >= 1
      /\ \A i \in 1..taken : tokens[i].type = "WORD"
      /\ TtlClassForm(Tail(HandledWords)) )
    => LET rest == Tail(HandledWords)
           ttls == {i \in 1..Len(rest) : IsTtlWord(rest[i])}
           clss == {i \in 1..Len(rest) : IsClassWord(rest[i])}
       IN  /\ pstatus = "running"
           /\ state.oname = Some(HandledWords[1])
           /\ state.ttl = IF ttls = {} THEN None
                          ELSE Some(int(rest[CHOOSE i \in ttls : TRUE]))
           /\ state.rrclass = IF clss = {} THEN None
                              ELSE Some(upper(rest[CHOOSE i \in clss : TRUE]))
           /\ "rrtype" \in state.want

\* C6: blank, whitespace-only and comment-only lines, a final newline and an
\* empty input raise no error and add no record.  While every handled token
\* is SPACE (not before a WORD), COMMENT, EOL or EOF and the tokenizer has not
\* failed, the parse has not failed, the zone is empty and the state is the initial one.
C6_BlankLinesInert ==
    ( /\ driver = "parser"
      /\ tstatus \notin TokErrors
      /\ \A i \in 1..taken :
            /\ tokens[i].type \in {"SPACE", "COMMENT", "EOL", "EOF"}
            /\ tokens[i].type = "SPACE" => tokens[i + 1].type # "WORD" )
    => /\ pstatus \in {"running", "done"}
       /\ zone = <<>>
       /\ state = InitState

\* The rdata field names registered for a type mnemonic; a type outside the
\* table has the base class's single field.
rdata_fields(m) ==
    IF m \in DOMAIN TYPES THEN TYPES[m].rdata_fields ELSE <<"rdata">>

\* C7: a record whose rdata value count differs from its type's field count
\* fails with MissingData and adds nothing to the zone.
C7_RdataArity ==
    [][ ( /\ HandlesRecordEnd
          /\ state.rrtype # None
          /\ Len(state.rdata) # Len(rdata_fields(state.rrtype[1])) )
        => /\ pstatus' = "MissingData"
           /\ zone' = zone ]_vars

Count(ch, text) == Cardinality({i \in 1..Len(text) : text[i] = ch})

\* Occurrences of ch inside the values of the COMMENT and STRING tokens.
RECURSIVE CountInText(_, _)
CountInText(ch, toks) ==
    IF toks = <<>> THEN 0
    ELSE (IF Head(toks).type \in {"COMMENT", "STRING"}
          THEN Count(ch, Head(toks).value[1]) ELSE 0)
         + CountInText(ch, Tail(toks))

Consumed == SubSeq(input, 1, pos - 1)

\* Characters ch consumed outside comments and strings.
GroupCount(ch) == Count(ch, Consumed) - CountInText(ch, tokens)

\* The maximal runs of non-delimiter characters of a text, in order.
RECURSIVE Runs(_, _, _)
Runs(text, i, cur) ==
    IF i > Len(text) THEN (IF cur = <<>> THEN <<>> ELSE <<cur>>)
    ELSE IF text[i] \in DELIMITERS
    THEN (IF cur = <<>> THEN <<>> ELSE <<cur>>) \o Runs(text, i + 1, <<>>)
    ELSE Runs(text, i + 1, Append(cur, text[i]))

RECURSIVE WordValues(_)
WordValues(toks) ==
    IF toks = <<>> THEN <<>>
    ELSE (IF Head(toks).type = "WORD" THEN <<Head(toks).value[1]>> ELSE <<>>)
         \o WordValues(Tail(toks))

\* Text without quotes and comments: words, blanks, newlines, parentheses.
Plain(text) ==
    \A i \in 1..Len(text) : text[i] \notin {QUOTE, SQUOTE, SEMI, BSLASH}

\* C8: inside a group the tokenizer emits no EOL and no SPACE token; the
\* WORD values of a plain text are its runs of non-delimiter characters,
\* the same whether the fields are wrapped in ( ... ) over several lines or
\* written on one line; and the parser compiles the wrapped record as one
\* record: ending a record that used a group adds exactly one record.
C8_MultilineOneRecord ==
    /\ [][ (multiline > 0 /\ tokens' # tokens)
           => tokens'[Len(tokens')].type \notin {"EOL", "SPACE"} ]_vars
    /\ []( (Plain(input) /\ tstatus \in {"running", "stopped"})
           => WordValues(tokens) = Runs(Consumed, 1, <<>>) )
    /\ [][ (HandlesRecordEnd /\ GroupCount(RPAREN) > 0)
           => /\ Len(zone') = 1
              /\ Len(zone'[1].rrs) = 1
              /\ pstatus' \in {"running", "done"} ]_vars

\* The tokenizer's own state is consistent: no error or endless loop has cut
\* a comment or a string short of its token.
Consistent == tstatus \in {"running", "stopped", "UnbalancedParentheses",
                           "UnexpectedEOF"}

\* C9: a `)` met by the main loop at depth 0 raises UnbalancedParentheses
\* there, the `)` is not consumed and no token follows; so the depth is
\* never negative and equals the `(` consumed minus the `)` consumed outside
\* comments and strings.
C9_UnbalancedParentheses ==
    /\ [](multiline >= 0)
    /\ [](Consistent => multiline = GroupCount(LPAREN) - GroupCount(RPAREN))
    /\ [](tstatus = "UnbalancedParentheses"
            => peek_next(input, pos) = RPAREN /\ multiline = 0)
    /\ [][ (TokRuns /\ peek_next(input, pos) = RPAREN /\ multiline = 0)
           => /\ tstatus' = "UnbalancedParentheses"
              /\ pos' = pos
              /\ tokens' = tokens ]_vars
    /\ [][ tstatus = "UnbalancedParentheses" => tokens' = tokens ]_vars

\* Witness of C9: after one group was opened and closed, an unmatched `)`
\* raised UnbalancedParentheses.
C9_Witness ==
    /\ tstatus = "UnbalancedParentheses"
    /\ GroupCount(LPAREN) = 1
    /\ GroupCount(RPAREN) = 1
    /\ tokens # <<>>

\* C10: reaching the end of the input inside a group raises UnexpectedEOF
\* and emits no EOF token; an EOF token is only emitted at the end of the
\* input at depth 0.  A run that has met the end of the input is stopped,
\* has raised UnexpectedEOF, or is reading '' for ever.
C10_EOFInsideGroup ==
    /\ (multiline > 0 /\ tstatus \in {"stopped", "hang", "UnexpectedEOF"})
          => /\ tstatus = "UnexpectedEOF"
             /\ \A i \in 1..Len(tokens) : tokens[i].type # "EOF"
    /\ \A i \in 1..Len(tokens) :
          tokens[i].type = "EOF"
              => multiline = 0 /\ pos = Len(input) + 1 /\ i = Len(tokens)

\* How the quoted string that opens at character p of a text ends, by the
\* escaping rule of the master-file format: a character right after an
\* unescaped backslash is taken literally; the first newline or quote that
\* is not taken literally ends the scan.
RECURSIVE StringEnd(_, _, _)
StringEnd(text, i, esc) ==
    IF i > Len(text) THEN "eof"
    ELSE IF esc THEN StringEnd(text, i + 1, FALSE)
    ELSE IF text[i] = BSLASH THEN StringEnd(text, i + 1, TRUE)
    ELSE IF text[i] = NL THEN "newline"
    ELSE IF text[i] = QUOTE THEN "quote"
    ELSE StringEnd(text, i + 1, FALSE)

\* The main loop is about to scan the string that opens at pos.
ScansString == TokRuns /\ peek_next(input, pos) = QUOTE

\* C11: scanning a string, a newline not preceded by an unescaped backslash
\* that comes before the closing quote raises UnexpectedEOL and no STRING
\* token is emitted; a newline preceded by an unescaped backslash does not
\* raise, so UnexpectedEOL is raised by such a newline only.
C11_NewlineInString ==
    [][ ScansString =>
          /\ StringEnd(input, pos + 1, FALSE) = "newline"
                => /\ tstatus' = "UnexpectedEOL"
                   /\ tokens' = tokens
          /\ tstatus' = "UnexpectedEOL"
                => /\ StringEnd(input, pos + 1, FALSE) = "newline"
                   /\ input[pos' - 1] = NL
                   /\ ~IsEscaped(SubSeq(input, pos + 1, pos' - 1),
                                 pos' - pos - 1) ]_vars

\* C12: an EOL token that arrives after a field of the record was read and
\* before any rdata was accepted finds EOL outside the want-set and fails
\* the parse with UnexpectedEOL; an EOF token there fails it with
\* UnexpectedEOF; the zone is left as it was, and stays so once the parse
\* has failed that way.
C12_IncompleteLine ==
    /\ [][ ( /\ Handles({"EOL", "EOF"})
             /\ state.oname # None
             /\ state.rdata = <<>> )
           => /\ "EOL" \notin state.want
              /\ pstatus' = IF Tok.type = "EOL" THEN "UnexpectedEOL"
                            ELSE "UnexpectedEOF"
              /\ zone' = zone ]_vars
    /\ [][ ( /\ pstatus \in {"UnexpectedEOL", "UnexpectedEOF"}
             /\ tstatus \notin TokErrors )
           => /\ pstatus' = pstatus
              /\ zone' = zone ]_vars

\* Witness of C12: the line `owner type` ended at an EOL before any rdata,
\* and the parse failed with UnexpectedEOL.
C12_Witness ==
    /\ pstatus = "UnexpectedEOL"
    /\ tstatus \notin TokErrors
    /\ taken >= 3
    /\ tokens[taken].type = "EOL"
    /\ state.oname # None
    /\ state.rrtype # None
    /\ state.rdata = <<>>
    /\ zone = <<>>

\* A word that names a registered type or has the TYPE### form.
IsTypeWord(w) ==
    \/ upper(w) \in DOMAIN TYPES
    \/ MatchesPrefixDigits(<<"T", "Y", "P", "E">>, upper(w))

\* C13: a token that is not valid for the want-set fails the parse with
\* UnexpectedToken and no other error: a STRING token when rdata is not
\* wanted; a WORD, when neither oname nor rdata is wanted, that is not an
\* all-digit ttl with ttl wanted, nor a class identifier, nor a type
\* identifier.
C13_UnexpectedToken ==
    /\ [][ (Handles({"STRING"}) /\ "rdata" \notin state.want)
           => pstatus' = "UnexpectedToken" ]_vars
    /\ [][ ( /\ Handles({"WORD"})
             /\ "oname" \notin state.want
             /\ "rdata" \notin state.want
             /\ ~(IsTtlWord(Tok.value[1]) /\ "ttl" \in state.want)
             /\ ~IsClassWord(Tok.value[1])
             /\ ~IsTypeWord(Tok.value[1]) )
           => pstatus' = "UnexpectedToken" ]_vars

\* The first line of the input is written without an owner: leading blanks,
\* then a type, then at least one rdata word, and its end is being handled.
\* No earlier record gave an owner to inherit.
EndsOwnerlessFirstLine ==
    /\ Handles({"EOL", "EOF"})
    /\ taken >= 3
    /\ tokens[1].type = "SPACE"
    /\ \A i \in 2..taken : tokens[i].type = "WORD"
    /\ IsTypeWord(tokens[2].value[1])

\* C14: a record compiled at EOL/EOF whose owner, type or rdata is absent or
\* empty fails the parse with MissingData and adds nothing to the zone; one
\* such record is a first line that inherits its owner when no earlier
\* record had one.
C14_MissingData ==
    /\ [][ ( /\ HandlesRecordEnd
             /\ \/ ~Truthy(state.oname)
                \/ ~Truthy(state.rrtype)
                \/ state.rdata = <<>> )
           => /\ pstatus' = "MissingData"
              /\ zone' = zone ]_vars
    /\ [][ EndsOwnerlessFirstLine
           => /\ pstatus' = "MissingData"
              /\ zone' = zone ]_vars

\* All the records of a zone, bucket after bucket.
RECURSIVE Records(_)
Records(z) ==
    IF z = <<>> THEN <<>> ELSE Head(z).rrs \o Records(Tail(z))

\* The zone without the last record of bucket i, and without the bucket when
\* that was its only record.
RemoveLast(z, i) ==
    IF Len(z[i].rrs) = 1
    THEN SubSeq(z, 1, i - 1) \o SubSeq(z, i + 1, Len(z))
    ELSE [z EXCEPT ![i].rrs = SubSeq(@, 1, Len(@) - 1)]

\* The buckets of zone' whose last record is the one this step added.
AddedAt == {i \in 1..Len(zone') : RemoveLast(zone', i) = zone}

\* The parser handles the end of a record that has an owner, a type and as
\* many rdata values as the type has fields.
EndsWellFormedRecord ==
    /\ HandlesRecordEnd
    /\ Truthy(state.oname)
    /\ Truthy(state.rrtype)
    /\ Len(state.rdata) = Len(rdata_fields(state.rrtype[1]))

\* C15: a record line that gives no class is compiled with the class
\* declared for the zone (cls, IN by default): it is not rejected, and the
\* record added has that class, never an unset one.
C15_ClassDefaultsToZone ==
    [][ (EndsWellFormedRecord /\ state.rrclass = None)
        => /\ pstatus' \in {"running", "done"}
           /\ \E i \in AddedAt :
                 LET rr == zone'[i].rrs[Len(zone'[i].rrs)]
                 IN  rr.rrclass # None /\ rr.rrclass = Some(cls) ]_vars

\* C16: a record line that gives no ttl is compiled with the zone's
\* default_ttl, and a line that gives one keeps its own integer value.
C16_TtlDefaultsToZone ==
    [][ EndsWellFormedRecord
        => /\ pstatus' \in {"running", "done"}
           /\ \E i \in AddedAt :
                 LET rr == zone'[i].rrs[Len(zone'[i].rrs)]
                 IN  rr.ttl = IF state.ttl = None THEN default_ttl
                              ELSE state.ttl ]_vars

\* C17: the owner of every compiled record is a Domain whose FQDN is the
\* owner text when that text ends with `.`, and otherwise the owner text,
\* `.` and the zone name; the zone name ends with `.` whether or not the
\* name given to the parser did.
C17_OwnerQualified ==
    /\ [](endswith_dot(zone_name(ZoneArg)))
    /\ [][ (EndsWellFormedRecord /\ state.oname # Some(<<"@">>))
           => /\ pstatus' \in {"running", "done"}
              /\ \E i \in AddedAt :
                    LET text == state.oname[1]
                    IN  fqdn(zone'[i].oname) =
                            IF endswith_dot(text) THEN text
                            ELSE text \o <<".">> \o zone_name(ZoneArg) ]_vars

\* The index of the first token of the logical line that token e ends.
LineStart(e) ==
    LET ends == {i \in 1..(e - 1) : tokens[i].type = "EOL"}
    IN  IF ends = {} THEN 1 ELSE 1 + CHOOSE i \in ends : \A j \in ends : j <= i

\* The words ws make a complete record: an owner, ttl and class in one of
\* the optional forms, a type at place k, and one rdata word per field.
CompleteAt(ws, k) ==
    /\ IsTypeWord(ws[k])
    /\ TtlClassForm(SubSeq(ws, 2, k - 1))
    /\ Len(ws) - k = Len(rdata_fields(upper(ws[k])))

\* Token e is the EOL or EOF that ends a complete logical line of words.
EndsCompleteLine(e) ==
    /\ tokens[e].type \in {"EOL", "EOF"}
    /\ \A i \in LineStart(e)..(e - 1) : tokens[i].type = "WORD"
    /\ LET ws == [i \in 1..(e - LineStart(e)) |->
                     tokens[LineStart(e) + i - 1].value[1]]
       IN  \E k \in 2..Len(ws) : CompleteAt(ws, k)

\* The ends of the complete logical lines handled so far.
CompleteLines == {e \in 1..taken : EndsCompleteLine(e)}

ParseAborted == driver = "parser" /\ pstatus \notin {"running", "done"}

NewCall == calls'[Len(calls')]

MakesCall(op) == Len(calls') = Len(calls) + 1 /\ NewCall.op = op

\* The records given to add_rr by a sequence of calls, in order.
RECURSIVE Adds(_)
Adds(cs) ==
    IF cs = <<>> THEN <<>>
    ELSE (IF Head(cs).op = "add_rr" THEN Head(cs).rr ELSE <<>>)
         \o Adds(Tail(cs))

\* The records of a sequence that have owner o, in order.
RECURSIVE OfOwner(_, _)
OfOwner(rrs, o) ==
    IF rrs = <<>> THEN <<>>
    ELSE (IF Head(rrs).oname = o THEN <<Head(rrs)>> ELSE <<>>)
         \o OfOwner(Tail(rrs), o)

\* The owners of a sequence of records in order of first appearance.
RECURSIVE FirstOwners(_, _)
FirstOwners(rrs, seen) ==
    IF rrs = <<>> THEN <<>>
    ELSE IF Head(rrs).oname \in seen THEN FirstOwners(Tail(rrs), seen)
    ELSE <<Head(rrs).oname>>
         \o FirstOwners(Tail(rrs), seen \cup {Head(rrs).oname})

\* The zone a sequence of inserted records makes: owners by first
\* insertion, each with its records by insertion.
Grouped(rrs) ==
    LET os == FirstOwners(rrs, {})
    IN  [i \in 1..Len(os) |-> [oname |-> os[i], rrs |-> OfOwner(rrs, os[i])]]

\* C19: add_rr appends the record at the end of its owner's bucket, making
\* that bucket after all existing owners when the owner is new, and leaves
\* every other bucket and the order of all existing records as they were;
\* so after any sequence of add_rr calls the owners stand in order of first
\* insertion and each owner's records in insertion order.
C19_AddRRAppends ==
    /\ [][ MakesCall("add_rr") =>
             LET rr == NewCall.rr[1]
             IN  IF \E i \in 1..Len(zone) : zone[i].oname = rr.oname
                 THEN /\ Len(zone') = Len(zone)
                      /\ \A j \in 1..Len(zone) :
                            /\ zone'[j].oname = zone[j].oname
                            /\ zone'[j].rrs =
                                  IF zone[j].oname = rr.oname
                                  THEN Append(zone[j].rrs, rr)
                                  ELSE zone[j].rrs
                 ELSE /\ Len(zone') = Len(zone) + 1
                      /\ SubSeq(zone', 1, Len(zone)) = zone
                      /\ zone'[Len(zone')] = [oname |-> rr.oname, rrs |-> <<rr>>]
          ]_vars
    /\ []( (driver = "api" /\ \A i \in 1..Len(calls) : calls[i].op = "add_rr")
           => zone = Grouped(Adds(calls)) )

\* Witness of C19: three insertions, the third for the owner inserted
\* first, after another owner was inserted; the zone has the two owners in
\* that order and the first owner has both its records.
C19_Witness ==
    /\ driver = "api"
    /\ Len(calls) = 3
    /\ \A i \in 1..3 : calls[i].op = "add_rr"
    /\ calls[1].rr[1].oname # calls[2].rr[1].oname
    /\ calls[3].rr[1].oname = calls[1].rr[1].oname
    /\ Len(zone) = 2
    /\ zone[1].rrs = <<calls[1].rr[1], calls[3].rr[1]>>
    /\ zone[2].rrs = <<calls[2].rr[1]>>

\* The value of attribute k of a record, None when it has no such
\* attribute: its type, or one of its type's rdata fields.
Attr(rr, k) ==
    LET fs  == rdata_fields(rr.rrtype)
        idx == {i \in 1..Len(fs) : fs[i] = k}
    IN  IF k = "type" THEN Some(rr.rrtype)
        ELSE IF idx # {} THEN Some(rr.rdata[CHOOSE i \in idx : TRUE])
        ELSE None

\* The record satisfies every key/value constraint.
MatchesAll(rr, match) ==
    \A i \in 1..Len(match) : Attr(rr, match[i][1]) = Some(match[i][2])

RECURSIVE Survivors(_, _)
Survivors(rrs, match) ==
    IF rrs = <<>> THEN <<>>
    ELSE (IF MatchesAll(Head(rrs), match) THEN <<>> ELSE <<Head(rrs)>>)
         \o Survivors(Tail(rrs), match)

\* The zone without the matching records and without the buckets they
\* leave empty.
RECURSIVE Without(_, _)
Without(z, match) ==
    IF z = <<>> THEN <<>>
    ELSE (IF Survivors(Head(z).rrs, match) = <<>> THEN <<>>
          ELSE <<[Head(z) EXCEPT !.rrs = Survivors(@, match)]>>)
         \o Without(Tail(z), match)

\* C20: del_rr(**match) on a zone built by add_rr removes exactly the
\* records, of every owner, that satisfy all the constraints, removes the
\* buckets left empty and leaves the other records in their order; no owner
\* is ever left with an empty record list.
C20_DelRRRemovesMatches ==
    /\ [][ MakesCall("del_rr") => zone' = Without(zone, NewCall.match) ]_vars
    /\ [](\A i \in 1..Len(zone) : zone[i].rrs # <<>>)

\* Token e ends a line that holds nothing but blanks and comments.
EndsBlankLine(e) ==
    /\ tokens[e].type \in {"EOL", "EOF"}
    /\ \A i \in LineStart(e)..(e - 1) : tokens[i].type \in {"SPACE", "COMMENT"}

\* The parser has stopped right after the end of a line, and every line it
\* handled was a complete record or blank.
StoppedAfterGoodLines ==
    /\ driver = "parser"
    /\ pstatus # "running"
    /\ taken >= 1
    /\ tokens[taken].type \in {"EOL", "EOF"}
    /\ \A e \in 1..taken :
          tokens[e].type \in {"EOL", "EOF"}
              => EndsCompleteLine(e) \/ EndsBlankLine(e)

\* C21: the parser runs to completion over the token stream and its one
\* Zone is returned: over lines that are all complete records or blank the
\* parse stops only at the EOF token, finished, and Zone.from_file returns
\* the zone holding the parsed records, not an empty or absent value.
C21_FromFileReturnsZone ==
    StoppedAfterGoodLines
        => /\ pstatus = "done"
           /\ tokens[taken].type = "EOF"
           /\ from_file = Some(zone)
           /\ Len(Records(zone)) = Cardinality(CompleteLines)

\* Every backslash of the text, read from place i on, starts the escape
\* `\.`.
RECURSIVE OnlyDotEscapes(_, _)
OnlyDotEscapes(text, i) ==
    IF i > Len(text) THEN TRUE
    ELSE IF text[i] = BSLASH
    THEN i < Len(text) /\ text[i + 1] = "." /\ OnlyDotEscapes(text, i + 2)
    ELSE OnlyDotEscapes(text, i + 1)

\* str(domain): the labels of an object joined again.
TextForm(o) == label_unsplit(objs[o].value.name)

\* C22: for every name text whose only escapes are `\.`, joining the labels
\* that splitting the text gave yields the text again.
C22_SplitUnsplitRoundTrip ==
    \A o \in 1..Len(objs) :
        OnlyDotEscapes(objs[o].split, 1) => TextForm(o) = objs[o].split

\* Witness of C22: a text with an escaped period inside a label and a
\* separating period after it was split into its two labels.
C22_Witness ==
    \E o \in 1..Len(objs) :
        /\ objs[o].split = <<"b", BSLASH, ".", "c", ".">>
        /\ objs[o].value.name = << <<"b", ".", "c">>, <<>> >>

\* The FQDN of an object by the chain of origin objects it was built on.
RECURSIVE ChainFqdn(_)
ChainFqdn(o) ==
    IF objs[o].origin = None THEN TextForm(o)
    ELSE TextForm(o) \o <<".">> \o ChainFqdn(objs[o].origin[1])

\* C23: fqdn() of a Domain without origin is its own text form; with an
\* origin it is its own text form, `.` and the origin's fqdn(), through
\* the whole chain of origins; the text form of a Domain built on an origin
\* stays the text it was given.
C23_FqdnThroughOrigins ==
    \A o \in 1..Len(objs) :
        /\ fqdn(objs[o].value) = ChainFqdn(o)
        /\ objs[o].origin # None => TextForm(o) = objs[o].text

\* Witness of C23: `a` built on `a` built on `a.` has the FQDN `a.a.a.`
\* and the text form `a`.
C23_Witness ==
    \E o \in 1..Len(objs) :
        /\ objs[o].origin # None
        /\ objs[objs[o].origin[1]].origin # None
        /\ fqdn(objs[o].value) = <<"a", ".", "a", ".", "a", ".">>
        /\ TextForm(o) = <<"a">>

\* C24: a construction whose FQDN is already registered gives the caller
\* the registered instance: every object a caller was given is the one the
\* registry holds for its FQDN, so two constructions with one FQDN give the
\* same object.
C24_DomainSingleton ==
    /\ \A o \in Made : DOMAINS[key_of(o)] = o
    /\ \A o1, o2 \in Made : key_of(o1) = key_of(o2) => o1 = o2

\* The threads between _acquireLock() and _releaseLock().
InSection == {t \in Threads : thr[t].pc \in {"lookup", "reuse", "insert", "release"}}

AcceptsRdata ==
    /\ Handles({"WORD", "STRING"})
    /\ state'.rdata = Append(state.rdata, Tok.value[1])

\* C26: after any rdata token is accepted, a WORD or a quoted STRING, the
\* want-set is {rdata, EOL, EOF}; so the end of a line or of the input that
\* follows accepted rdata is never refused as unexpected.
C26_WantAfterRdata ==
    /\ [][AcceptsRdata => state'.want = {"rdata", "EOL", "EOF"}]_vars
    /\ [](pstatus \in {"UnexpectedEOL", "UnexpectedEOF"} /\ tstatus \notin TokErrors
            => state.rdata = <<>>)

\* The parser handles a WORD between the owner name and the type.
WordBeforeType ==
    /\ Handles({"WORD"})
    /\ "oname" \notin state.want
    /\ "rdata" \notin state.want

\* C27: within one record ttl and class are assigned at most once: a word
\* between the owner and the type leaves a ttl or class already read as it
\* is, and a second all-digit word after a ttl, or a second class word after
\* a class, is rejected with UnexpectedToken.
C27_TtlClassOnce ==
    [][ WordBeforeType =>
          /\ state.ttl # None => state'.ttl = state.ttl
          /\ state.rrclass # None => state'.rrclass = state.rrclass
          /\ (state.ttl # None /\ isdigit(Tok.value[1]))
                => pstatus' = "UnexpectedToken"
          /\ (state.rrclass # None /\ IsClassWord(Tok.value[1]))
                => pstatus' = "UnexpectedToken" ]_vars

\* The ttl, class and type of the record being read stay as they are.
FieldsKept ==
    /\ state'.ttl = state.ttl
    /\ state'.rrclass = state.rrclass
    /\ state'.rrtype = state.rrtype

\* C28: once the type of a record has been read the want-set is exactly
\* {rdata}, no field kind other than rdata and the line end is wanted
\* again, ttl, class and type do not change before the record ends, and
\* every later WORD of the record is appended to rdata in input order
\* whatever it spells.
C28_RdataAfterType ==
    /\ [][ (Handles({"WORD"}) /\ state.rrtype = None /\ state'.rrtype # None)
              => state'.want = {"rdata"} ]_vars
    /\ [](state.rrtype # None =>
              /\ "rdata" \in state.want
              /\ state.want \subseteq {"rdata", "EOL", "EOF"})
    /\ [][ (state.rrtype # None /\ ~Handles({"EOL", "EOF"})) => FieldsKept ]_vars
    /\ [][ (Handles({"WORD"}) /\ state.rrtype # None)
              => /\ state'.rdata = Append(state.rdata, Tok.value[1])
                 /\ pstatus' = pstatus ]_vars

\* Witness of C28: after the type, an all-digit word and then a word
\* spelling a type were appended to rdata, with no ttl and the type as read.
C28_Witness ==
    /\ driver = "parser"
    /\ pstatus = "running"
    /\ state.rrtype = Some(<<"A">>)
    /\ state.ttl = None
    /\ state.rdata = << <<"1">>, <<"A">> >>
    /\ state.want = {"rdata", "EOL", "EOF"}

\* C29: last_oname is carried across records: the end of a record whose
\* owner name was read from the line makes last_oname that name, and every
\* other step of the parse leaves last_oname as it is.
C29_LastOnameCarried ==
    /\ [][ (HandlesRecordEnd /\ Truthy(state.oname) /\ Truthy(state.rrtype))
              => state'.last_oname = state.oname ]_vars
    /\ [][ ~(HandlesRecordEnd /\ Truthy(state.oname))
              => state'.last_oname = state.last_oname ]_vars

\* The cursor is at the start of a physical line or of the input.
AtLineStart == pos = 1 \/ input[pos - 1] = NL

\* The tokenizer step yields a SPACE token.
YieldsSpace ==
    /\ Len(tokens') = Len(tokens) + 1
    /\ tokens'[Len(tokens')].type = "SPACE"

\* The length of the whitespace run that starts at place p of the input.
RECURSIVE RunLength(_)
RunLength(p) ==
    IF p <= Len(input) /\ input[p] \in {SP, TAB} THEN 1 + RunLength(p + 1) ELSE 0

\* C30: a step of the tokenizer emits a SPACE token exactly when a run of
\* non-newline whitespace begins at the start of a physical line or of the
\* input at depth 0; the token's value is the length of the run and the
\* cursor is past the run; a SPACE token is the first token of its line, so
\* there is at most one per line.
C30_SpaceAtLineStart ==
    /\ [][ (pos' # pos \/ tokens' # tokens \/ tstatus' # tstatus) =>
             /\ YieldsSpace <=> /\ AtLineStart
                                /\ RunLength(pos) > 0
                                /\ multiline = 0
             /\ YieldsSpace =>
                   /\ tokens'[Len(tokens')].value = Some(RunLength(pos))
                   /\ pos' = pos + RunLength(pos)
                   /\ tokens' = Append(tokens, tokens'[Len(tokens')]) ]_vars
    /\ [](\A i \in 1..Len(tokens) :
             tokens[i].type = "SPACE" => i = 1 \/ tokens[i - 1].type = "EOL")

\* Witness of C30: a line that starts with two spaces gave one SPACE token
\* of value 2 after the EOL of the line before, and the single space later
\* in that line gave none.
C30_Witness ==
    /\ driver = "list"
    /\ input = <<NL, SP, SP, "a", SP>>
    /\ tstatus = "stopped"
    /\ Len(tokens) = 4
    /\ tokens[1].type = "EOL"
    /\ tokens[2].type = "SPACE" /\ tokens[2].value = Some(2)
    /\ tokens[3].type = "WORD"
    /\ tokens[4].type = "EOF"

\* The tokenizer step yields a token of the given type.
YieldsType(type) ==
    /\ Len(tokens') = Len(tokens) + 1
    /\ tokens' = Append(tokens, tokens'[Len(tokens')])
    /\ tokens'[Len(tokens')].type = type

\* The loop iteration starts on a character that no comment, string,
\* whitespace or newline branch takes.
AtWordOrParen ==
    /\ tstatus = "running"
    /\ pos <= Len(input)
    /\ input[pos] \notin {SP, TAB, NL, SEMI, QUOTE}
    /\ (pos' # pos \/ tokens' # tokens \/ tstatus' # tstatus)

\* C31: every WORD token has a non-empty value without delimiter
\* characters, its scan consumes exactly the characters of the value and
\* stops before a delimiter or at the end of input; a character outside
\* comments, strings and whitespace is consumed by the step that meets it,
\* as part of one WORD token or as a parenthesis.
C31_WordTokens ==
    /\ [][ YieldsType("WORD") =>
             LET v == tokens'[Len(tokens')].value[1]
             IN  /\ v # <<>>
                 /\ \A i \in 1..Len(v) : v[i] \notin DELIMITERS
                 /\ pos' = pos + Len(v)
                 /\ v = SubSeq(input, pos, pos' - 1)
                 /\ pos' > Len(input) \/ input[pos'] \in DELIMITERS ]_vars
    /\ [][ (AtWordOrParen /\ tstatus' = "running") =>
             \/ YieldsType("WORD")
             \/ /\ input[pos] \in {LPAREN, RPAREN}
                /\ pos' = pos + 1
                /\ tokens' = tokens ]_vars

\* The first place at or after p of the input that holds one of the
\* characters cs; one past the end when there is none.
RECURSIVE FirstOf(_, _)
FirstOf(cs, p) ==
    IF p > Len(input) \/ input[p] \in cs THEN p ELSE FirstOf(cs, p + 1)

\* The characters that end a comment at the given group depth.
CommentEnds(depth) == IF depth > 0 THEN {RPAREN, NL} ELSE {NL}

\* C32: a comment started inside a group ends at the first `)` or newline,
\* outside a group at the newline; the COMMENT value is the text from the
\* `;` up to that character, which the scan leaves under the cursor, so a
\* `)` outside a group is comment text; the step that meets a `)` left by a
\* comment in a group consumes it and lowers the depth by one.
C32_CommentInGroup ==
    /\ [][ YieldsType("COMMENT") =>
             LET e == FirstOf(CommentEnds(multiline), pos)
             IN  /\ e <= Len(input)
                 /\ tokens'[Len(tokens')].value = Some(SubSeq(input, pos, e - 1))
                 /\ pos' = e
                 /\ multiline' = multiline ]_vars
    /\ [][ ( /\ tstatus = "running"
             /\ tokens # <<>>
             /\ tokens[Len(tokens)].type = "COMMENT"
             /\ multiline > 0
             /\ pos <= Len(input)
             /\ input[pos] = RPAREN
             /\ pos' # pos )
           => /\ pos' = pos + 1
              /\ multiline' = multiline - 1
              /\ tokens' = tokens
              /\ tstatus' = "running" ]_vars

\* Witness of C32: the comment of `(;a)` stopped before the `)`, the `)`
\* closed the group and the input ended at depth 0.
C32_Witness ==
    /\ driver = "list"
    /\ input = <<LPAREN, SEMI, "a", RPAREN>>
    /\ tstatus = "stopped"
    /\ multiline = 0
    /\ Len(tokens) = 2
    /\ tokens[1].type = "COMMENT" /\ tokens[1].value = Some(<<SEMI, "a">>)
    /\ tokens[2].type = "EOF"

\* The 1-based line and column of place p of the input, counted from the
\* newline characters before it.
TruePosition(p) ==
    LET nls == {i \in 1..(p - 1) : i <= Len(input) /\ input[i] = NL}
        last == IF nls = {} THEN 0 ELSE CHOOSE i \in nls : \A j \in nls : j <= i
    IN  <<1 + Cardinality(nls), p - last>>

\* Position a comes before position b in (line, column) order.
PosBefore(a, b) == a[1] < b[1] \/ (a[1] = b[1] /\ a[2] < b[2])

\* C33: every token is emitted with the 1-based (line, column) of its first
\* character in the input, the line counted from every newline character
\* before it and the column from the last of them; the positions of
\* successive tokens are strictly increasing, EOF alone being allowed the
\* position that follows the last token.
C33_TokenPositions ==
    /\ [][ Len(tokens') = Len(tokens) + 1
             => tokens'[Len(tokens')].position = TruePosition(pos) ]_vars
    /\ [](\A i \in 2..Len(tokens) :
             \/ PosBefore(tokens[i - 1].position, tokens[i].position)
             \/ /\ tokens[i].type = "EOF"
                /\ tokens[i].position = tokens[i - 1].position)

\* The number of backslashes that stand directly before place i of the text.
RECURSIVE BackslashesBefore(_, _)
BackslashesBefore(text, i) ==
    IF i > 1 /\ text[i - 1] = BSLASH THEN 1 + BackslashesBefore(text, i - 1)
    ELSE 0

\* The text ends in a period that no backslash escapes.
EndsUnescapedDot(text) ==
    /\ Len(text) > 0
    /\ text[Len(text)] = "."
    /\ BackslashesBefore(text, Len(text)) % 2 = 0

\* C34: a Domain built from a text that ends in an unescaped `.` has no
\* origin whatever origin was passed; a Domain built from any other text,
\* a text ending in the escaped period `\.` included, keeps the origin it
\* was given.
C34_OriginKept ==
    \A o \in 1..Len(objs) :
        LET given == IF objs[o].given = None THEN None
                     ELSE Some(objs[objs[o].given[1]].value)
        IN  IF EndsUnescapedDot(objs[o].text)
            THEN objs[o].value.origin = None
            ELSE objs[o].value.origin = given

\* The periods of the text from place i on that no backslash escapes.
RECURSIVE UnescapedDots(_, _)
UnescapedDots(text, i) ==
    IF i > Len(text) THEN 0
    ELSE IF text[i] = BSLASH THEN UnescapedDots(text, i + 2)
    ELSE (IF text[i] = "." THEN 1 ELSE 0) + UnescapedDots(text, i + 1)

\* The text from place i on with the backslash of every `\.` dropped and
\* every other escape pair kept.
RECURSIVE DropDotEscapes(_, _)
DropDotEscapes(text, i) ==
    IF i > Len(text) THEN <<>>
    ELSE IF text[i] = BSLASH /\ i < Len(text)
    THEN (IF text[i + 1] = "." THEN <<".">> ELSE <<BSLASH, text[i + 1]>>)
         \o DropDotEscapes(text, i + 2)
    ELSE <<text[i]>> \o DropDotEscapes(text, i + 1)

\* The labels written one after the other with a period between them.
RECURSIVE JoinLabels(_)
JoinLabels(labels) ==
    IF Len(labels) = 1 THEN labels[1]
    ELSE labels[1] \o <<".">> \o JoinLabels(Tail(labels))

\* C35: label splitting follows its rules for every text it is given: it
\* returns labels (it does not raise), `\.` puts a period into the label
\* without the backslash and every other escape pair is kept whole, each
\* unescaped period ends a label, so there is one label more than there
\* are unescaped periods, and a text ending in an unescaped period gives a
\* last label that is the empty root label.
C35_LabelSplitRules ==
    /\ \A t \in Threads : thr[t].err # "StopIteration"
    /\ \A o \in 1..Len(objs) :
          LET text == objs[o].split
              name == objs[o].value.name
          IN  /\ Len(name) = 1 + UnescapedDots(text, 1)
              /\ JoinLabels(name) = DropDotEscapes(text, 1)
              /\ EndsUnescapedDot(text) => name[Len(name)] = <<>>

\* The code points of the characters of the name texts.
CharRank(ch) ==
    CASE ch = "." -> 46
      [] ch = BSLASH -> 92
      [] ch = "a" -> 97
      [] ch = "b" -> 98
      [] ch = "c" -> 99

\* Text x comes before text y in the order of strings.
RECURSIVE TextLess(_, _)
TextLess(x, y) ==
    IF y = <<>> THEN FALSE
    ELSE IF x = <<>> THEN TRUE
    ELSE IF Head(x) # Head(y) THEN CharRank(Head(x)) < CharRank(Head(y))
    ELSE TextLess(Tail(x), Tail(y))

\* Label sequence m comes before label sequence n when the labels are
\* compared from the rightmost one leftward.
RECURSIVE LabelsLess(_, _)
LabelsLess(m, n) ==
    IF n = <<>> THEN FALSE
    ELSE IF m = <<>> THEN TRUE
    ELSE IF m[Len(m)] # n[Len(n)] THEN TextLess(m[Len(m)], n[Len(n)])
    ELSE LabelsLess(SubSeq(m, 1, Len(m) - 1), SubSeq(n, 1, Len(n) - 1))

\* C36: the ordering of Domains is a strict total order consistent with
\* equality: for any two Domains the three comparisons a < b, a == b and
\* a > b give an answer and exactly one of them holds, a <= b holds exactly
\* when a < b or a == b, and between two Domains of one origin a < b is
\* decided by the labels from the rightmost leftward.
C36_DomainOrder ==
    \A o1, o2 \in 1..Len(objs) :
        LET a == objs[o1].value
            b == objs[o2].value
        IN  /\ lt(a, b).kind = "ok" /\ eq(a, b).kind = "ok" /\ gt(a, b).kind = "ok"
            /\ Cardinality({r \in {"lt", "eq", "gt"} :
                   \/ r = "lt" /\ lt(a, b).value
                   \/ r = "eq" /\ eq(a, b).value
                   \/ r = "gt" /\ gt(a, b).value}) = 1
            /\ le(a, b).kind = "ok"
            /\ le(a, b).value <=> (lt(a, b).value \/ eq(a, b).value)
            /\ a.origin = b.origin => (lt(a, b).value <=> LabelsLess(a.name, b.name))

\* C37: the registry is static under lookups with known identifiers: after
\* any sequence of get_class, get_class_mnemonic, get_type_mnemonic,
\* generate and RR construction calls every built-in entry is still the
\* original class object, with its numeric value and long name, under its
\* mnemonic, and no entry has been added.
C37_RegistryStatic ==
    driver = "registry" =>
        /\ DOMAIN registry.CLASSES = DOMAIN CLASSES
        /\ \A m \in DOMAIN CLASSES : registry.CLASSES[m] = BuiltinClass(m)
        /\ DOMAIN registry.TYPES = DOMAIN TYPES
        /\ \A m \in DOMAIN TYPES : registry.TYPES[m] = BuiltinType(m)

\* C38: records whose owner names resolve to the same FQDN are stored in
\* one owner bucket of the Zone, whether the owner was written relative to
\* the zone or fully qualified: no two owner keys of the zone have the same
\* FQDN.
C38_OneBucketPerFqdn ==
    driver = "api" =>
        \A i, j \in 1..Len(zone) :
            fqdn(zone[i].oname) = fqdn(zone[j].oname) => i = j

\* C39: the word classifiers agree with the resolvers the parser calls
\* next: for a WORD that reaches the ttl/class/type dispatch, is_class
\* returns a boolean, get_type_mnemonic returns a mnemonic whenever is_type
\* is true and get_class_mnemonic returns one whenever is_class is true, so
\* the step ends in a field assignment or in UnexpectedToken.
C39_ClassifiersAgree ==
    [][ WordBeforeType =>
          LET w == Tok.value[1]
          IN  /\ is_type(w) \in BOOLEAN
              /\ is_class(w).kind = "ok"
              /\ is_type(w) => get_type_mnemonic(w).kind = "ok"
              /\ (is_class(w).kind = "ok" /\ is_class(w).value = TRUE)
                    => get_class_mnemonic(w).kind = "ok"
              /\ pstatus' \in {"running", "UnexpectedToken"}
              /\ pstatus' = "running" =>
                    \/ state'.ttl # state.ttl
                    \/ state'.rrclass # state.rrclass
                    \/ state'.rrtype # state.rrtype ]_vars

====
